---- MODULE Spec2Model ----
(***************************************************************************)
(* A model of the indicator refresh engine, the backtest evaluator and the  *)
(* Hilega-Milega scanner rule of sutirtha1977/stock_market.                 *)
(*                                                                          *)
(* The relational store is modelled with the transaction semantics of a    *)
(* psycopg2 connection on PostgreSQL: statements of one connection run in   *)
(* one open transaction until commit() or rollback(); rows sent by          *)
(* executemany are visible to that connection and become persistent on      *)
(* commit(); a statement the server rejects puts the transaction in the     *)
(* aborted state, in which every later statement is rejected and commit()   *)
(* ends the transaction by rolling it back; a dropped connection rolls the  *)
(* open transaction back.                                                   *)
(***************************************************************************)
EXTENDS Integers, Sequences, FiniteSets, TLC

(***************************************************************************)
(* Bounds of the model.                                                     *)
(***************************************************************************)
\* price bars one symbol/timeframe may hold in the refresh model
MaxBars == 3
\* refresh_indicators calls in one behaviour
MaxRuns == 2
\* lookback_rows is drawn from 1..MaxLookback (the code's default is 250)
MaxLookback == 2
\* errors the environment raises in one behaviour
MaxFaults == 1

(***************************************************************************)
(* Optional values: SQL NULL / Python None / NaN is the empty tuple.        *)
(***************************************************************************)
Null == <<>>
Some(v) == <<v>>
Val(o) == o[1]

SetMax(S) == CHOOSE x \in S : \A y \in S : y <= x
SetMin(S) == CHOOSE x \in S : \A y \in S : x <= y

(***************************************************************************)
(* Configuration.                                                           *)
(***************************************************************************)
FREQUENCIES == <<"1d", "1wk", "1mo">>
Timeframes == {FREQUENCIES[i] : i \in 1..Len(FREQUENCIES)}

\* The symbol ids a table of the store may hold.
SymbolIds == {1, 2}

\* The calculators wrapped by safe_indicator and the number of series each
\* returns when it succeeds.
Calculators == {"rsi", "ema", "wma", "bollinger", "atr", "supertrend", "macd"}
NumOutputs(calc) ==
    CASE calc = "bollinger" -> 3
      [] calc = "macd" -> 2
      [] calc = "supertrend" -> 2
      [] OTHER -> 1

\* The columns of SQL_INSERT, other than the key.
IndicatorColumns ==
    {"sma_20", "sma_50", "sma_200", "rsi_3", "rsi_9", "rsi_14",
     "bb_upper", "bb_middle", "bb_lower", "atr_14", "supertrend",
     "supertrend_dir", "ema_rsi_9_3", "wma_rsi_9_21", "pct_price_change",
     "macd", "macd_signal"}

VARIABLES
    symbol_table,   \* symbol table: the sequence of its symbol ids
    price,          \* price store: <<timeframe, symbol_id>> -> set of bars
    indicator,      \* indicator store: the committed rows
    pending,        \* rows sent on the connection, not yet committed
    txAborted,      \* the connection's transaction is in the aborted state
    pc,             \* "idle" | "unit" | "commit" | "exit"
    cursor,         \* index of the unit the loop is at
    lookback_rows,  \* the parameter of the running call
    faults,         \* errors raised by the environment so far
    runs,           \* refresh_indicators calls started so far
    hist,           \* what the checks remember of the current and previous run
    signals,        \* a signal file: set of [date, symbol_id]
    trades,         \* Null, or the evaluator's result for the signal file
    hm_frame,       \* the joined frame handed to the Hilega-Milega rule
    hm_signals,     \* Null, or the rows the rule returned
    wk_rows,        \* weekly price bars joined with their indicator rows
    play_args,      \* [start_year, lookback_years] of a multi-year backtest
    play_signals,   \* Null, or the Play backtest's result
    weekly_scan,    \* Null, or [scan_date, rows] of the last weekly scan
    ind_input,      \* the bars handed to an indicator function
    ind_output,     \* Null, or what the indicator function returned
    bars,           \* price table with full bars: rows keyed like Key
    agg,            \* what the checks remember of the aggregator's runs and
                    \* of the writers of weekly and monthly bars
    batch,          \* a refresh_indicators call over a list of asset types
    call,           \* Null, or the last call of an operation and its outcome
    stats,          \* 52-week stats table: rows keyed by symbol_id
    today,          \* CURRENT_DATE, a day number
    stat_run,       \* Null, or the last refresh_week52_high_low_stats call
                    \* when nothing has changed since
    is_active,      \* symbol table: the is_active flag of each symbol_id
    pool_used       \* connections checked out of CONNECTION_POOL

vars == << symbol_table, price, indicator, pending, txAborted, pc, cursor,
           lookback_rows, faults, runs, hist, signals, trades, hm_frame,
           hm_signals, wk_rows, play_args, play_signals, weekly_scan,
           ind_input, ind_output, bars, agg, batch, call, stats, today,
           stat_run, is_active, pool_used >>

\* The state of refresh_indicators, the evaluator and the HM scanners.
coreVars == << symbol_table, price, indicator, pending, txAborted, pc, cursor,
               lookback_rows, faults, runs, hist, signals, trades, hm_frame,
               hm_signals >>

\* The state of the operations modelled further down.
playVars == << wk_rows, play_args, play_signals, weekly_scan >>
calcVars == << ind_input, ind_output >>
aggVars == << bars, agg >>
errVars == << batch, call >>
statVars == << stats, today, stat_run >>
symVars == << is_active >>
poolVars == << pool_used >>
extVars == << playVars, calcVars, aggVars, errVars, statVars, symVars,
             poolVars >>

\* None of those operations has run.
PlayIdle ==
    /\ wk_rows = {}
    /\ play_args = [start_year |-> 0, lookback_years |-> 0]
    /\ play_signals = <<>>
    /\ weekly_scan = <<>>
CalcIdle ==
    /\ ind_input = <<>>
    /\ ind_output = <<>>
AggIdle ==
    /\ bars = {}
    /\ agg = [runs |-> 0, rows |-> {}, daily |-> {}, prevRows |-> {},
              prevDaily |-> {}, higherWriters |-> {}]
ErrIdle ==
    /\ batch = [asset_keys |-> <<>>, done |-> <<>>, pc |-> "idle"]
    /\ call = <<>>
StatIdle ==
    /\ stats = {}
    /\ today = 0
    /\ stat_run = <<>>
SymIdle == is_active = <<>>
PoolIdle == pool_used = 0
ExtIdle ==
    /\ PlayIdle
    /\ CalcIdle
    /\ AggIdle
    /\ ErrIdle
    /\ StatIdle
    /\ SymIdle
    /\ PoolIdle

\* What refresh_indicators neither reads for writing nor writes.
scanVars == << symbol_table, signals, trades, hm_frame, hm_signals, extVars >>

\* A bar of the external price feed for symbol s on day d.
Quote(s, d) == [date |-> d, open |-> 90 + 7 * s + d, close |-> 95 + 5 * s + 2 * d]

\* asset_ids = [r[0] for r in cur.fetchall()], and the order in which
\* refresh_indicators visits the units of one asset type:
\* for timeframe in FREQUENCIES: for asset_id in asset_ids.
asset_ids == symbol_table
Units == Timeframes \X {asset_ids[i] : i \in 1..Len(asset_ids)}
NumUnits == Len(FREQUENCIES) * Len(asset_ids)
UnitAt(i) ==
    << FREQUENCIES[((i - 1) \div Len(asset_ids)) + 1],
       asset_ids[((i - 1) % Len(asset_ids)) + 1] >>

(***************************************************************************)
(* The store.                                                               *)
(***************************************************************************)
\* An indicator row is keyed by (symbol_id, timeframe, date).
Key(r) == << r.timeframe, r.symbol_id, r.date >>

\* INSERT ... ON CONFLICT (symbol_id, timeframe, date) DO UPDATE SET ...
Upsert(store, rows) ==
    {r \in store : \A n \in rows : Key(n) # Key(r)} \cup rows

\* What a statement of the connection reads: the committed rows and the rows
\* the connection's own open transaction has written.
Visible == Upsert(indicator, pending)

RowsOf(rows, u) == {r \in rows : r.timeframe = u[1] /\ r.symbol_id = u[2]}

\* SELECT MAX(date) FROM {indicator_table} WHERE symbol_id=%s AND timeframe=%s
SelectMaxDate(rows, u) ==
    LET ds == {r.date : r \in RowsOf(rows, u)}
    IN  IF ds = {} THEN Null ELSE Some(SetMax(ds))

PriceDates(u) == {b.date : b \in price[u]}

\* The scalar subquery of the incremental fetch:
\*   SELECT date FROM price WHERE ... AND date <= last_dt
\*   ORDER BY date DESC OFFSET lookback_rows LIMIT 1
\* It yields no row, hence NULL, when at most lookback_rows bars are dated
\* on or before last_dt.
LookbackStart(u, last_dt, lb) ==
    LET le == {d \in PriceDates(u) : d <= last_dt}
    IN  IF Cardinality(le) > lb
        THEN Some(CHOOSE d \in le : Cardinality({e \in le : e > d}) = lb)
        ELSE Null

\* The dates of the frame pd.read_sql returns. With a last indicator date the
\* filter is date >= (subquery), which no row satisfies when the subquery is NULL.
FetchPriceDates(u, last, lb) ==
    IF last = Null
    THEN PriceDates(u)
    ELSE LET s == LookbackStart(u, Val(last), lb)
         IN  IF s = Null THEN {} ELSE {d \in PriceDates(u) : d >= Val(s)}

(***************************************************************************)
(* calculate_indicators and the safe_indicator wrapper.                     *)
(***************************************************************************)
\* What the wrapper returns when the wrapped calculator raises: a pair of
\* null series for calculate_supertrend, one null series for any other.
SafeIndicatorReturns(calc) == IF calc = "supertrend" THEN 2 ELSE 1

\* The assignment at the call site. One target takes the series. Several
\* targets unpack the returned value: a tuple of as many series fits; a
\* single series is iterated over its n values, which fits only when n is
\* the number of targets (each column is then the scalar NaN), and raises
\* ValueError otherwise.
UnpackOk(calc, n) ==
    IF NumOutputs(calc) = 1 THEN TRUE
    ELSE IF SafeIndicatorReturns(calc) = NumOutputs(calc) THEN TRUE
    ELSE n = NumOutputs(calc)

\* The calculator calls of calculate_indicators, in order, with the columns
\* each assigns.
CalcSteps ==
    << [calc |-> "rsi", cols |-> {"rsi_3", "rsi_9", "rsi_14"}],
       [calc |-> "ema", cols |-> {"ema_rsi_9_3"}],
       [calc |-> "wma", cols |-> {"wma_rsi_9_21"}],
       [calc |-> "bollinger", cols |-> {"bb_upper", "bb_middle", "bb_lower"}],
       [calc |-> "atr", cols |-> {"atr_14"}],
       [calc |-> "supertrend", cols |-> {"supertrend", "supertrend_dir"}],
       [calc |-> "macd", cols |-> {"macd", "macd_signal"}] >>

\* The columns that are null on every row because calculator `failing`
\* raised: its own outputs, and the columns computed from them.
\* calculate_ema and calculate_wma read rsi_9; calculate_supertrend calls
\* calculate_atr itself and, on a null ATR, yields a null supertrend with
\* direction -1 on every row.
NullColumns(failing) ==
    CASE failing = "rsi" ->
            {"rsi_3", "rsi_9", "rsi_14", "ema_rsi_9_3", "wma_rsi_9_21"}
      [] failing = "ema" -> {"ema_rsi_9_3"}
      [] failing = "wma" -> {"wma_rsi_9_21"}
      [] failing = "bollinger" -> {"bb_upper", "bb_middle", "bb_lower"}
      [] failing = "atr" -> {"atr_14", "supertrend"}
      [] failing = "supertrend" -> {"supertrend", "supertrend_dir"}
      [] failing = "macd" -> {"macd", "macd_signal"}
      [] OTHER -> {}

\* calculate_indicators over a frame of n rows when calculator `failing`
\* ("none": no calculator) raises. The body runs inside one try block: an
\* unpacking error ends it at that call and the frame is returned with the
\* columns assigned so far.
calculate_indicators(n, failing) ==
    LET bad == {i \in 1..Len(CalcSteps) :
                    CalcSteps[i].calc = failing /\ ~UnpackOk(failing, n)}
        stop == IF bad = {} THEN Len(CalcSteps) + 1 ELSE SetMin(bad)
        assigned == UNION {CalcSteps[i].cols : i \in 1..(stop - 1)}
    IN  [ columns |-> {"sma_20", "sma_50", "sma_200"} \cup assigned
                      \cup (IF bad = {} THEN {"pct_price_change"} ELSE {}),
          nulls   |-> NullColumns(failing) \cap assigned ]

(***************************************************************************)
(* refresh_indicators: one symbol/timeframe unit of the loop.               *)
(***************************************************************************)
\* df = df[df["date"] > last_dt], applied only when a last date exists.
KeepNewRows(dates, last) ==
    IF last = Null THEN dates ELSE {d \in dates : d > Val(last)}

\* The tuples handed to executemany, one per kept row. A value computed by a
\* recurrence (EMA, Wilder smoothing, Supertrend) is a function of the frame
\* from its first row to the row's own: window_start stands for those values.
PrepareRecords(u, dates, keep, res) ==
    { [ timeframe    |-> u[1],
        symbol_id    |-> u[2],
        date         |-> d,
        window_start |-> SetMin(dates),
        nulls        |-> res.nulls ] : d \in keep }

\* UnitOutcome without the "keep only new rows" step: the whole recomputed
\* frame is handed to executemany.
UnitOutcome_WritesWholeFrame(u, rows, lb, failing) ==
    LET last  == SelectMaxDate(rows, u)
        dates == FetchPriceDates(u, last, lb)
        res   == calculate_indicators(Cardinality(dates), failing)
    IN  IF dates = {} THEN [kind |-> "skip", rows |-> {}]
        ELSE IF ~(IndicatorColumns \subseteq res.columns)
             THEN [kind |-> "raise", rows |-> {}]
        ELSE [kind |-> "insert", rows |-> PrepareRecords(u, dates, dates, res)]

\* What the body of the try block does for unit u when no statement fails:
\* "skip" is one of the two `continue`s, "raise" is the KeyError of reading a
\* column calculate_indicators did not assign, "insert" reaches executemany.
UnitOutcome(u, rows, lb, failing) ==
    LET last  == SelectMaxDate(rows, u)
        dates == FetchPriceDates(u, last, lb)
        res   == calculate_indicators(Cardinality(dates), failing)
        keep  == KeepNewRows(dates, last)
    IN  IF dates = {} THEN [kind |-> "skip", rows |-> {}]
        ELSE IF keep = {} THEN [kind |-> "skip", rows |-> {}]
        ELSE IF ~(IndicatorColumns \subseteq res.columns)
             THEN [kind |-> "raise", rows |-> {}]
        ELSE [kind |-> "insert", rows |-> PrepareRecords(u, dates, keep, res)]

\* The first k records in the frame's order (ORDER BY date).
FirstRecords(rows, k) ==
    {r \in rows : Cardinality({q \in rows : q.date < r.date}) < k}

Keys(rows) == {Key(r) : r \in rows}

NoRun ==
    [ ind0 |-> {}, raised |-> {}, injected |-> {}, calcFailed |-> {},
      sentByFailed |-> {}, written |-> {}, committed |-> {},
      killed |-> FALSE, done |-> FALSE, lb |-> 0, sameBars |-> FALSE ]

\* No refresh_indicators call is running and none has run.
RefreshIdle ==
    /\ pending = {}
    /\ txAborted = FALSE
    /\ pc = "idle"
    /\ cursor = 0
    /\ lookback_rows = 0
    /\ faults = 0
    /\ runs = 0
    /\ hist = [cur |-> NoRun, prev |-> NoRun, barsAdded |-> FALSE]

\* No signal file is being evaluated and no frame scanned.
ScanIdle ==
    /\ signals = {}
    /\ trades = Null
    /\ hm_frame = {}
    /\ hm_signals = Null

\* One symbol in the symbol table.  Its daily series holds the bars of an
\* earlier import and the indicator rows an earlier refresh_indicators
\* wrote for them; its weekly and monthly series are still empty.
Init ==
    /\ symbol_table = <<1>>
    /\ price = [u \in Timeframes \X SymbolIds |->
                  IF u = <<"1d", 1>> THEN {Quote(1, d) : d \in 1..MaxLookback}
                  ELSE {}]
    /\ indicator = UnitOutcome(<<"1d", 1>>, {}, MaxLookback, "none").rows
    /\ RefreshIdle
    /\ ScanIdle
    /\ ExtIdle

\* The for loop moves to the next unit; after the last one the with block ends.
NextUnit ==
    /\ cursor' = cursor + 1
    /\ pc' = IF cursor + 1 > NumUnits THEN "exit" ELSE "unit"

\* The except clause of the unit: log and go on. It does not roll back.
Raised(extra) ==
    hist' = [hist EXCEPT !.cur.raised = @ \cup {cursor},
                         !.cur.injected = @ \cup extra]

\* The price import adds the next bar of a symbol/timeframe.
AddBar(u) ==
    /\ UNCHANGED scanVars
    /\ pc = "idle"
    /\ runs < MaxRuns
    /\ Cardinality(price[u]) < MaxBars
    /\ LET d == Cardinality(price[u]) + 1
       IN  price' = [price EXCEPT ![u] = @ \cup {Quote(u[2], d)}]
    /\ hist' = [hist EXCEPT !.barsAdded = TRUE]
    /\ UNCHANGED << indicator, pending, txAborted, pc, cursor, lookback_rows,
                    faults, runs >>

\* refresh_indicators(lookback_rows = lb) is called: a connection is taken
\* and the loop starts at the first unit.
StartRun(lb) ==
    /\ UNCHANGED scanVars
    /\ pc = "idle"
    /\ runs < MaxRuns
    /\ runs' = runs + 1
    /\ lookback_rows' = lb
    /\ cursor' = 1
    /\ pc' = "unit"
    /\ pending' = {}
    /\ txAborted' = FALSE
    /\ hist' = [cur |-> [NoRun EXCEPT !.ind0 = indicator, !.lb = lb,
                                       !.sameBars = ~hist.barsAdded],
                prev |-> hist.cur,
                barsAdded |-> FALSE]
    /\ UNCHANGED << price, indicator, faults >>

\* The unit's try block with no error from the environment.
ProcessUnit ==
    /\ UNCHANGED scanVars
    /\ pc = "unit"
    /\ ~txAborted
    /\ LET out == UnitOutcome(UnitAt(cursor), Visible, lookback_rows, "none")
       IN  IF out.kind = "insert"
           THEN /\ pending' = Upsert(pending, out.rows)
                /\ pc' = "commit"
                /\ UNCHANGED << cursor, hist >>
           ELSE /\ NextUnit
                /\ UNCHANGED << pending, hist >>
    /\ UNCHANGED << price, indicator, txAborted, lookback_rows, faults, runs >>

\* The unit's try block when calculator calc raises inside calculate_indicators.
CalculatorRaises(calc) ==
    /\ UNCHANGED scanVars
    /\ pc = "unit"
    /\ ~txAborted
    /\ faults < MaxFaults
    /\ LET u    == UnitAt(cursor)
           last == SelectMaxDate(Visible, u)
           out  == UnitOutcome(u, Visible, lookback_rows, calc)
       IN  /\ FetchPriceDates(u, last, lookback_rows) # {}
           /\ IF out.kind = "insert"
              THEN /\ pending' = Upsert(pending, out.rows)
                   /\ pc' = "commit"
                   /\ cursor' = cursor
                   /\ hist' = [hist EXCEPT !.cur.calcFailed = @ \cup {<<cursor, calc>>}]
              ELSE /\ NextUnit
                   /\ pending' = pending
                   /\ hist' = [hist EXCEPT
                                 !.cur.calcFailed = @ \cup {<<cursor, calc>>},
                                 !.cur.raised = IF out.kind = "raise"
                                                THEN @ \cup {cursor} ELSE @]
    /\ faults' = faults + 1
    /\ UNCHANGED << price, indicator, txAborted, lookback_rows, runs >>

\* The server rejects a statement of the unit: the SELECT MAX(date) (k = -1),
\* or the INSERT of executemany's record k+1 after k records were sent. The
\* transaction is aborted from then on.
StatementRejected(k) ==
    /\ UNCHANGED scanVars
    /\ pc = "unit"
    /\ ~txAborted
    /\ faults < MaxFaults
    /\ LET out == UnitOutcome(UnitAt(cursor), Visible, lookback_rows, "none")
           sent == IF k < 0 THEN {} ELSE FirstRecords(out.rows, k)
       IN  /\ k >= 0 => (out.kind = "insert" /\ k < Cardinality(out.rows))
           /\ pending' = Upsert(pending, sent)
           /\ hist' = [hist EXCEPT !.cur.raised = @ \cup {cursor},
                                   !.cur.injected = @ \cup {cursor},
                                   !.cur.sentByFailed = @ \cup Keys(sent)]
    /\ txAborted' = TRUE
    /\ faults' = faults + 1
    /\ NextUnit
    /\ UNCHANGED << price, indicator, lookback_rows, runs >>

\* executemany raises on the client side (a value of record k+1 cannot be
\* adapted) after k records were sent: the transaction stays open and holds
\* the k rows.
ExecutemanyRaises(k) ==
    /\ UNCHANGED scanVars
    /\ pc = "unit"
    /\ ~txAborted
    /\ faults < MaxFaults
    /\ LET out == UnitOutcome(UnitAt(cursor), Visible, lookback_rows, "none")
           sent == FirstRecords(out.rows, k)
       IN  /\ out.kind = "insert"
           /\ k < Cardinality(out.rows)
           /\ pending' = Upsert(pending, sent)
           /\ hist' = [hist EXCEPT !.cur.raised = @ \cup {cursor},
                                   !.cur.injected = @ \cup {cursor},
                                   !.cur.sentByFailed = @ \cup Keys(sent)]
    /\ faults' = faults + 1
    /\ NextUnit
    /\ UNCHANGED << price, indicator, txAborted, lookback_rows, runs >>

\* In an aborted transaction the unit's first statement, the SELECT MAX(date),
\* is rejected (InFailedSqlTransaction) and the unit ends in its except clause.
InFailedTransaction ==
    /\ UNCHANGED scanVars
    /\ pc = "unit"
    /\ txAborted
    /\ Raised({})
    /\ NextUnit
    /\ UNCHANGED << price, indicator, pending, txAborted, lookback_rows,
                    faults, runs >>

\* conn.commit() after executemany.
CommitUnit ==
    /\ UNCHANGED scanVars
    /\ pc = "commit"
    /\ indicator' = Upsert(indicator, pending)
    /\ pending' = {}
    /\ hist' = [hist EXCEPT !.cur.written = @ \cup Keys(pending),
                            !.cur.committed = @ \cup {cursor}]
    /\ NextUnit
    /\ UNCHANGED << price, txAborted, lookback_rows, faults, runs >>

\* The with block of the connection ends without an exception: psycopg2
\* commits. In an aborted transaction the commit rolls back.
ExitRun ==
    /\ UNCHANGED scanVars
    /\ pc = "exit"
    /\ indicator' = IF txAborted THEN indicator ELSE Upsert(indicator, pending)
    /\ hist' = [hist EXCEPT !.cur.written =
                                IF txAborted THEN @ ELSE @ \cup Keys(pending),
                            !.cur.done = TRUE]
    /\ pending' = {}
    /\ txAborted' = FALSE
    /\ pc' = "idle"
    /\ UNCHANGED << price, cursor, lookback_rows, faults, runs >>

\* The process is killed during a run: the server rolls the open
\* transaction back.
Kill ==
    /\ UNCHANGED scanVars
    /\ pc \in {"unit", "commit", "exit"}
    /\ pending' = {}
    /\ txAborted' = FALSE
    /\ pc' = "idle"
    /\ hist' = [hist EXCEPT !.cur.killed = TRUE]
    /\ UNCHANGED << price, indicator, cursor, lookback_rows, faults, runs >>

Next ==
    \/ \E u \in Units : AddBar(u)
    \/ \E lb \in 1..MaxLookback : StartRun(lb)
    \/ ProcessUnit
    \/ CommitUnit
    \/ ExitRun
    \/ Kill

Spec == Init /\ [][Next]_vars

\* Runs in which the store rejects a statement or executemany raises.
NextFaults ==
    \/ \E u \in Units : AddBar(u)
    \/ \E lb \in 1..MaxLookback : StartRun(lb)
    \/ ProcessUnit
    \/ \E k \in -1..(MaxBars - 1) : StatementRejected(k)
    \/ \E k \in 0..(MaxBars - 1) : ExecutemanyRaises(k)
    \/ InFailedTransaction
    \/ CommitUnit
    \/ ExitRun

SpecFaults == Init /\ [][NextFaults]_vars

\* Runs in which a calculator raises.
NextCalc ==
    \/ \E u \in Units : AddBar(u)
    \/ \E lb \in 1..MaxLookback : StartRun(lb)
    \/ ProcessUnit
    \/ \E calc \in Calculators : CalculatorRaises(calc)
    \/ CommitUnit
    \/ ExitRun

SpecCalc == Init /\ [][NextCalc]_vars

(***************************************************************************)
(* Claims about refresh_indicators.                                         *)
(***************************************************************************)
\* A call ran to the end of its with block and the price store is still
\* the one it worked on.
RunCompleted == pc = "idle" /\ hist.cur.done /\ ~hist.barsAdded

\* The dates of the rows the current call committed for unit u.
WrittenDates(u) ==
    {k[3] : k \in {w \in hist.cur.written : w[1] = u[1] /\ w[2] = u[2]}}

\* The store after a call that visits every unit without error or
\* interruption, computed unit by unit in the loop's order.
RECURSIVE RunFrom(_, _, _)
RunFrom(rows, i, lb) ==
    IF i > NumUnits
    THEN rows
    ELSE RunFrom(Upsert(rows, UnitOutcome(UnitAt(i), rows, lb, "none").rows),
                 i + 1, lb)

\* C1: for every symbol/timeframe whose last persisted indicator date is D,
\* a run of refresh_indicators that meets no error persists a row for
\* exactly the price bars dated after D, however many bars are dated on or
\* before D.
C1_PersistsExactlyBarsAfterLastDate ==
    (RunCompleted /\ hist.cur.raised = {}) =>
        \A u \in Units :
            LET last == SelectMaxDate(hist.cur.ind0, u)
            IN  last # Null =>
                    WrittenDates(u) = {d \in PriceDates(u) : d > Val(last)}

\* C2: a second run of refresh_indicators, with no price bar added since the
\* first run, inserts no indicator row and leaves the indicator store as the
\* first run left it.
C2_SecondRunInsertsNothing ==
    (RunCompleted /\ hist.prev.done /\ hist.cur.sameBars) =>
        /\ hist.cur.written = {}
        /\ indicator = hist.cur.ind0

\* C3: when one unit raises, a calculation error or a storage error on the
\* shared connection, every later unit is still processed and its new rows
\* are committed as if the failure had not happened: a unit on which the
\* environment raised nothing does not raise, and the rows it has to add are
\* committed by the run.
C3_LaterUnitsUnaffectedByFailure ==
    RunCompleted =>
        \A i \in 1..NumUnits :
            i \notin hist.cur.injected =>
                /\ i \notin hist.cur.raised
                /\ Keys(UnitOutcome(UnitAt(i), hist.cur.ind0, hist.cur.lb, "none").rows)
                       \subseteq (hist.cur.written \cap Keys(indicator))

\* C4: the rows of a unit are persisted all-or-nothing: a row sent by a unit
\* that then failed is never committed, not by a later unit's commit either,
\* and the rows committed by earlier units stay persisted.
C4_FailedUnitRowsNeverCommitted ==
    /\ hist.cur.sentByFailed \cap Keys(indicator) = {}
    /\ hist.cur.written \subseteq Keys(indicator)

\* C5: when a run is killed and refresh_indicators is then run to completion
\* over the same price bars with the same lookback_rows, the indicator store
\* is the one a single uninterrupted run produces, and the rerun writes
\* nothing for the units the killed run had committed.
C5_RerunAfterKillEqualsOneRun ==
    (RunCompleted /\ hist.prev.killed /\ hist.cur.sameBars
        /\ hist.cur.lb = hist.prev.lb) =>
        /\ indicator = RunFrom(hist.prev.ind0, 1, hist.cur.lb)
        /\ \A i \in hist.prev.committed : WrittenDates(UnitAt(i)) = {}

\* A run was killed after it had committed a unit and before it had committed
\* another one, which the rerun then wrote.
C5_Witness ==
    /\ RunCompleted
    /\ hist.prev.killed
    /\ hist.cur.sameBars
    /\ hist.cur.lb = hist.prev.lb
    /\ hist.prev.committed # {}
    /\ hist.cur.written # {}

\* The columns calculator calc assigns.
ColumnsOf(calc) ==
    UNION {CalcSteps[i].cols : i \in {j \in 1..Len(CalcSteps) : CalcSteps[j].calc = calc}}

\* C6: when one calculator raises, its wrapper returns a null series for each
\* of its outputs, so calculate_indicators returns every indicator column and
\* refresh_indicators persists the unit's rows, with nulls in the failed
\* calculator's columns, instead of skipping the unit.
C6_FailedCalculatorGivesNullColumns ==
    RunCompleted =>
        \A f \in hist.cur.calcFailed :
            LET u == UnitAt(f[1])
                want == Keys(UnitOutcome(u, hist.cur.ind0, hist.cur.lb, "none").rows)
            IN  /\ f[1] \notin hist.cur.raised
                /\ want \subseteq hist.cur.written
                /\ \A r \in RowsOf(indicator, u) :
                       Key(r) \in want => ColumnsOf(f[2]) \subseteq r.nulls


\* ---------------------------------------------------------------------
\* The trade evaluator: backtest_scanners (scanners/backtest_service.py)
\* and backtest_weekly_signals_inplace (test.py), for one signal file.
\* ---------------------------------------------------------------------

MaxDay == 12            \* calendar days 1..MaxDay carry daily bars

WindowDays == 10        \* pd.Timedelta(days=10)
MinExitBars == 6        \* len(exit_df) < 6, len(future) < 6
ExitPosition == 5       \* exit_df.iloc[5], future.iloc[5]

\* The bars of a set in date order (ORDER BY symbol_id, date; sort_values).
SortByDate(S) ==
    [i \in 1..Cardinality(S) |->
        CHOOSE b \in S : Cardinality({c \in S : c.date < b.date}) = i - 1]

\* The frame `prices`: the daily bars of the file's symbols dated from the
\* file's first signal date to its last signal date plus WindowDays.
PricesWindow(df) ==
    LET symbol_ids == {g.symbol_id : g \in df}
        min_date == SetMin({g.date : g \in df})
        max_date == SetMax({g.date : g \in df}) + WindowDays
    IN  [sid \in symbol_ids |->
            {b \in price[<<"1d", sid>>] : min_date <= b.date /\ b.date <= max_date}]

\* prices_map.get(sid): Null when the window holds no bar of the symbol.
PricesMapGet(prices, sid) ==
    IF prices[sid] = {} THEN Null ELSE Some(SortByDate(prices[sid]))

\* round(ret, 2), in hundredths of a percent, for ret = num / den, den > 0:
\* the nearest hundredth, an exact tie going to the even one.
Round2(num, den) ==
    LET q == (100 * num) \div den
        r == (100 * num) % den
    IN  IF 2 * r > den \/ (2 * r = den /\ q % 2 = 1) THEN q + 1 ELSE q

\* The return of a trade as the exact ratio num / den.
Ratio(num, den) == [num |-> num, den |-> den]

\* The body of backtest_scanners' signal loop with the exit taken one bar
\* early (exit_df.iloc[4]).
SignalTrade_ExitOneBarEarly(row, symbol_prices) ==
    LET entry_df == SelectSeq(symbol_prices, LAMBDA b : b.date > row.date)
        entry == entry_df[1]
        exit_df == SelectSeq(symbol_prices, LAMBDA b : b.date >= entry.date)
        exit_row == exit_df[ExitPosition]
    IN  IF entry_df = <<>> THEN Null
        ELSE IF Len(exit_df) < MinExitBars THEN Null
        ELSE Some([signal |-> row,
                   symbol_id |-> row.symbol_id,
                   entry_date |-> entry.date,
                   entry_open |-> entry.open,
                   exit_date |-> exit_row.date,
                   exit_close |-> exit_row.close,
                   return_pct |-> Ratio((exit_row.close - entry.open) * 100,
                                        entry.open)])

\* The body of backtest_scanners' signal loop for one row of the file:
\* Null when the row is skipped, else the trade appended.  The field
\* `signal` is not in the exported trade; it records the row the trade
\* was appended for.
SignalTrade(row, symbol_prices) ==
    LET entry_df == SelectSeq(symbol_prices, LAMBDA b : b.date > row.date)
        entry == entry_df[1]
        exit_df == SelectSeq(symbol_prices, LAMBDA b : b.date >= entry.date)
        exit_row == exit_df[ExitPosition + 1]
    IN  IF entry_df = <<>> THEN Null
        ELSE IF Len(exit_df) < MinExitBars THEN Null
        ELSE Some([signal |-> row,
                   symbol_id |-> row.symbol_id,
                   entry_date |-> entry.date,
                   entry_open |-> entry.open,
                   exit_date |-> exit_row.date,
                   exit_close |-> exit_row.close,
                   return_pct |-> Ratio((exit_row.close - entry.open) * 100,
                                        entry.open)])

\* The body of backtest_weekly_signals_inplace's signal loop for one row:
\* Null when the row keeps its empty columns, else the columns filled in,
\* return_pct in hundredths.
InplaceTrade(row, symbol_prices) ==
    LET future == SelectSeq(symbol_prices, LAMBDA b : b.date > row.date)
        entry == future[1]
        exit_row == future[ExitPosition + 1]
    IN  IF Len(future) < MinExitBars THEN Null
        ELSE Some([signal |-> row,
                   symbol_id |-> row.symbol_id,
                   entry_date |-> entry.date,
                   entry_open |-> entry.open,
                   exit_date |-> exit_row.date,
                   exit_close |-> exit_row.close,
                   return_pct |-> Round2((exit_row.close - entry.open) * 100,
                                         entry.open)])

\* The trades backtest_scanners makes of a file: none when the file is
\* empty or the window holds no bar at all.
ScannerTrades(df) ==
    IF df = {} THEN {}
    ELSE LET prices == PricesWindow(df)
             prices_map == [sid \in DOMAIN prices |-> PricesMapGet(prices, sid)]
             made == [row \in df |->
                        IF prices_map[row.symbol_id] = Null THEN Null
                        ELSE SignalTrade(row, Val(prices_map[row.symbol_id]))]
         IN  IF \A sid \in DOMAIN prices : prices[sid] = {} THEN {}
             ELSE {Val(made[row]) : row \in {g \in df : made[g] # Null}}

\* The rows backtest_weekly_signals_inplace fills in, under the same
\* conditions.
InplaceTrades(df) ==
    IF df = {} THEN {}
    ELSE LET prices == PricesWindow(df)
             price_map == [sid \in DOMAIN prices |-> PricesMapGet(prices, sid)]
             made == [row \in df |->
                        IF price_map[row.symbol_id] = Null THEN Null
                        ELSE InplaceTrade(row, Val(price_map[row.symbol_id]))]
         IN  IF \A sid \in DOMAIN prices : prices[sid] = {} THEN {}
             ELSE {Val(made[row]) : row \in {g \in df : made[g] # Null}}

\* backtest_scanners processes the signal file.
BacktestScanners ==
    /\ trades = Null
    /\ trades' = Some([evaluator |-> "backtest_scanners",
                       rows |-> ScannerTrades(signals)])
    /\ UNCHANGED << symbol_table, price, indicator, pending, txAborted, pc,
                    cursor, lookback_rows, faults, runs, hist, signals,
                    hm_frame, hm_signals, extVars >>

\* backtest_weekly_signals_inplace processes the signal file.
BacktestWeeklySignalsInplace ==
    /\ trades = Null
    /\ trades' = Some([evaluator |-> "backtest_weekly_signals_inplace",
                       rows |-> InplaceTrades(signals)])
    /\ UNCHANGED << symbol_table, price, indicator, pending, txAborted, pc,
                    cursor, lookback_rows, faults, runs, hist, signals,
                    hm_frame, hm_signals, extVars >>

\* The daily bars of the feed on a set of days.
DailyBars(s, days) == {Quote(s, d) : d \in days}

\* The signal files: one or two rows, each a symbol and a date early
\* enough for the calendar to reach past the price window's end.
SignalRows == [date : 1..(MaxDay - WindowDays), symbol_id : SymbolIds]
SignalFiles == {{a, b} : a \in SignalRows, b \in SignalRows}

\* A store holding daily bars and a signal file to evaluate.  Symbol 1
\* has a bar on any set of days (holidays and gaps included); symbol 2
\* has a bar on every day.
InitBacktest ==
    /\ symbol_table = <<1, 2>>
    /\ \E days \in SUBSET (1..MaxDay) :
          price = [u \in Timeframes \X SymbolIds |->
                     IF u = <<"1d", 1>> THEN DailyBars(1, days)
                     ELSE IF u = <<"1d", 2>> THEN DailyBars(2, 1..MaxDay)
                     ELSE {}]
    /\ indicator = {}
    /\ RefreshIdle
    /\ signals \in SignalFiles
    /\ trades = Null
    /\ hm_frame = {}
    /\ hm_signals = Null
    /\ ExtIdle

NextBacktest ==
    \/ BacktestScanners
    \/ BacktestWeeklySignalsInplace

SpecBacktest == InitBacktest /\ [][NextBacktest]_vars

\* The daily bars the store holds for a symbol after a date, in date order.
StoredBarsAfter(sid, date) ==
    SortByDate({b \in price[<<"1d", sid>>] : b.date > date})

Evaluated == trades # Null

C8_SixBarsAfterSignalGiveATrade ==
    Evaluated =>
        \A g \in signals :
            Len(StoredBarsAfter(g.symbol_id, g.date)) >= 6
                => \E t \in Val(trades).rows : t.signal = g

\* ---------------------------------------------------------------------
\* The Hilega-Milega rule: apply_hilega_milega_logic of scanners/
\* scanner_HM.py and of scanners/scanner_HM_multi.py.
\* A column value is Null (SQL NULL, NaN in the frame) or Some(v), v the
\* number in hundredths.
\* ---------------------------------------------------------------------

NaN == Null

\* a / b of two float columns: NaN when an operand is NaN or for 0 / 0,
\* an infinity (den = 0) for x / 0, else the quotient num / den, den > 0.
FloatDiv(a, b) ==
    IF a = NaN \/ b = NaN THEN NaN
    ELSE LET x == Val(a)
             y == Val(b)
         IN  IF y = 0 THEN (IF x = 0 THEN NaN
                            ELSE Some([num |-> IF x > 0 THEN 1 ELSE -1, den |-> 0]))
             ELSE IF y > 0 THEN Some([num |-> x, den |-> y])
             ELSE Some([num |-> -x, den |-> -y])

\* q >= c / 100 and q > c / 100 for a quotient q; False for NaN.
QuotGe(q, c) ==
    /\ q # NaN
    /\ IF Val(q).den = 0 THEN Val(q).num > 0
       ELSE Val(q).num * 100 >= c * Val(q).den
QuotGt(q, c) ==
    /\ q # NaN
    /\ IF Val(q).den = 0 THEN Val(q).num > 0
       ELSE Val(q).num * 100 > c * Val(q).den

\* column >= c / 100, column > c / 100, column < c / 100; False for NaN.
ColGe(a, c) == a # NaN /\ Val(a) >= c
ColGt(a, c) == a # NaN /\ Val(a) > c
ColLt(a, c) == a # NaN /\ Val(a) < c

\* The rule with rsi_9 / ema_rsi_9_3 >= 1.05 in place of > 1.05.
apply_hilega_milega_logic_GeEma(df) ==
    { r \in df :
        /\ ColGe(r.close, 6000)
        /\ QuotGe(FloatDiv(r.rsi_3, r.rsi_9), 115)
        /\ QuotGe(FloatDiv(r.rsi_9, r.ema_rsi_9_3), 105)
        /\ QuotGe(FloatDiv(r.ema_rsi_9_3, r.wma_rsi_9_21), 100)
        /\ ColLt(r.rsi_3, 6000)
        /\ ColGt(r.rsi_3_weekly, 6000)
        /\ ColGt(r.rsi_3_monthly, 5000) }

\* The rule without its rsi_3 / rsi_9 >= 1.15 condition.
apply_hilega_milega_logic_NoRsiRatio(df) ==
    { r \in df :
        /\ ColGe(r.close, 6000)
        /\ QuotGt(FloatDiv(r.rsi_9, r.ema_rsi_9_3), 105)
        /\ QuotGe(FloatDiv(r.ema_rsi_9_3, r.wma_rsi_9_21), 100)
        /\ ColLt(r.rsi_3, 6000)
        /\ ColGt(r.rsi_3_weekly, 6000)
        /\ ColGt(r.rsi_3_monthly, 5000) }

\* scanner_HM.apply_hilega_milega_logic: the rows of df the mask keeps
\* (an empty df is returned as it is; the result's order is not modelled).
apply_hilega_milega_logic(df) ==
    { r \in df :
        /\ ColGe(r.close, 6000)
        /\ QuotGe(FloatDiv(r.rsi_3, r.rsi_9), 115)
        /\ QuotGt(FloatDiv(r.rsi_9, r.ema_rsi_9_3), 105)
        /\ QuotGe(FloatDiv(r.ema_rsi_9_3, r.wma_rsi_9_21), 100)
        /\ ColLt(r.rsi_3, 6000)
        /\ ColGt(r.rsi_3_weekly, 6000)
        /\ ColGt(r.rsi_3_monthly, 5000) }

\* The rule of scanner_HM_multi without its monthly condition.
apply_hilega_milega_logic_multi_NoMonthly(df) ==
    { r \in df :
        /\ ColGe(r.close, 6000)
        /\ QuotGe(FloatDiv(r.rsi_3, r.rsi_9), 115)
        /\ QuotGt(FloatDiv(r.rsi_9, r.ema_rsi_9_3), 105)
        /\ QuotGe(FloatDiv(r.ema_rsi_9_3, r.wma_rsi_9_21), 100)
        /\ ColLt(r.rsi_3, 6000)
        /\ ColGt(r.rsi_3_weekly, 6000) }

\* scanner_HM_multi.apply_hilega_milega_logic.
apply_hilega_milega_logic_multi(df) ==
    { r \in df :
        /\ ColGe(r.close, 6000)
        /\ QuotGe(FloatDiv(r.rsi_3, r.rsi_9), 115)
        /\ QuotGt(FloatDiv(r.rsi_9, r.ema_rsi_9_3), 105)
        /\ QuotGe(FloatDiv(r.ema_rsi_9_3, r.wma_rsi_9_21), 100)
        /\ ColLt(r.rsi_3, 6000)
        /\ ColGt(r.rsi_3_weekly, 6000)
        /\ ColGt(r.rsi_3_monthly, 5000) }

\* The dates of a multi-year backtest are ordinals: calendar year y holds
\* the dates (y - 1) * DatesPerYear + 1 .. y * DatesPerYear.
DatesPerYear == 2       \* dates of the store in one calendar year
MaxYears == 2           \* calendar years the store covers

NumDates == DatesPerYear * MaxYears
YearOf(d) == ((d - 1) \div DatesPerYear) + 1
\* The dates d with 'y-01-01' <= d, and those with d <= 'y-12-31'.
FirstDateOfYear(y) == (y - 1) * DatesPerYear + 1
LastDateOfYear(y) == y * DatesPerYear

\* start_date and end_date of a multi-year backtest.
RangeStart(args) == FirstDateOfYear(args.start_year - args.lookback_years + 1)
RangeEnd(args) == LastDateOfYear(args.start_year)

\* fetch_hilega_milega_data_for_range: the joined rows dated inside the
\* range.
fetch_hilega_milega_data_for_range(start_date, end_date) ==
    {r \in hm_frame : start_date <= r.date /\ r.date <= end_date}

\* The yearly export with every signal in one file, that of the latest
\* year.
HmYearlyFiles_OneFile(df_signals) ==
    LET years == {YearOf(r.date) : r \in df_signals}
    IN  [yr \in {y \in years : \A z \in years : z <= y} |-> df_signals]

\* The yearly files scanner_backtest_multi_years_hm exports: one
\* HM_YEARLY_{yr}.csv per year that occurs among the signals' dates,
\* holding the signals of that year.
HmYearlyFiles(df_signals) ==
    LET years == {YearOf(r.date) : r \in df_signals}
    IN  [yr \in years |-> {r \in df_signals : YearOf(r.date) = yr}]

\* run_scanner_hilega_milega hands the fetched frame to the rule.
RunScannerHilegaMilega ==
    /\ hm_signals = Null
    /\ hm_signals' = Some([module |-> "scanner_HM",
                           rows |-> apply_hilega_milega_logic(hm_frame)])
    /\ UNCHANGED << symbol_table, price, indicator, pending, txAborted, pc,
                    cursor, lookback_rows, faults, runs, hist, signals,
                    trades, hm_frame, extVars >>

\* scanner_backtest_multi_years_hm clears the folder, fetches the rows of
\* the range, hands them to the rule and exports one file per year.
\* (The evaluation of the exported files is BacktestScanners.)
ScannerBacktestMultiYearsHm ==
    /\ hm_signals = Null
    /\ LET df_hm == fetch_hilega_milega_data_for_range(RangeStart(play_args),
                                                       RangeEnd(play_args))
           df_signals == apply_hilega_milega_logic_multi(df_hm)
       IN  hm_signals' = Some([module |-> "scanner_HM_multi",
                               rows |-> df_signals,
                               files |-> HmYearlyFiles(df_signals)])
    /\ UNCHANGED << symbol_table, price, indicator, pending, txAborted, pc,
                    cursor, lookback_rows, faults, runs, hist, signals,
                    trades, hm_frame, extVars >>

\* A row of the joined frame, its numeric columns given in hundredths
\* (-1 stands for NULL).
HmRow(sid, close, rsi_3, rsi_9, ema, wma, weekly, monthly) ==
    LET col(v) == IF v = -1 THEN Null ELSE Some(v)
    IN  [symbol_id |-> sid, date |-> 1,
         close |-> col(close), rsi_3 |-> col(rsi_3), rsi_9 |-> col(rsi_9),
         ema_rsi_9_3 |-> col(ema), wma_rsi_9_21 |-> col(wma),
         rsi_3_weekly |-> col(weekly), rsi_3_monthly |-> col(monthly)]

\* Column values around each threshold of the rule, NULLs and zero
\* divisors included.
CloseValues == {5999, 6000, 6500}
Rsi3Values == {-1, 4829, 4830, 5800, 5999, 6000, 6500}
Rsi9Values == {-1, 0, 4200, 5500}
EmaValues == {0, 3999, 4000, 5200}
WmaValues == {-1, 0, 3999, 4000, 5000}
WeeklyValues == {-1, 6000, 6500}
MonthlyValues == {-1, 5000, 5500}

\* Rows of symbol 2 that accompany the row of symbol 1 in a frame.
CompanionRows ==
    { HmRow(2, 6500, 6500, 5500, 5200, 5000, 6500, 5500),
      HmRow(2, 6500, 5800, 5500, 5200, 5000, 6500, 5500),
      HmRow(2, 6500, 5999, 4200, 3999, 3999, 6500, 5500) }

\* A frame fetched for one scan date: a row of symbol 1, alone or with a
\* row of symbol 2.
InitHM ==
    /\ symbol_table = <<1, 2>>
    /\ price = [u \in Timeframes \X SymbolIds |-> {}]
    /\ indicator = {}
    /\ RefreshIdle
    /\ signals = {}
    /\ trades = Null
    /\ \E c \in CloseValues, r3 \in Rsi3Values, r9 \in Rsi9Values,
          e \in EmaValues, w \in WmaValues, wk \in WeeklyValues,
          mo \in MonthlyValues, others \in {{}} \cup {{x} : x \in CompanionRows} :
          hm_frame = {HmRow(1, c, r3, r9, e, w, wk, mo)} \cup others
    /\ hm_signals = Null
    /\ wk_rows = {}
    /\ play_args = [start_year |-> 1, lookback_years |-> 1]
    /\ play_signals = Null
    /\ weekly_scan = Null
    /\ CalcIdle
    /\ AggIdle
    /\ ErrIdle
    /\ StatIdle
    /\ SymIdle
    /\ PoolIdle

NextHM ==
    \/ RunScannerHilegaMilega
    \/ ScannerBacktestMultiYearsHm

SpecHM == InitHM /\ [][NextHM]_vars

Scanned == hm_signals # Null

\* x / y >= n / 100 (strict: > n / 100) for column values x, y >= 0 in
\* hundredths, a positive value over zero counting as infinite.
RatioAtLeast(x, y, n) == (y > 0 /\ 100 * x >= n * y) \/ (y = 0 /\ x > 0)
RatioAbove(x, y, n) == (y > 0 /\ 100 * x > n * y) \/ (y = 0 /\ x > 0)

\* The seven conditions on a row; a NULL column satisfies none.
SevenConditions(r) ==
    /\ \A col \in {r.close, r.rsi_3, r.rsi_9, r.ema_rsi_9_3, r.wma_rsi_9_21,
                   r.rsi_3_weekly, r.rsi_3_monthly} : col # Null
    /\ r.close[1] >= 6000
    /\ RatioAtLeast(r.rsi_3[1], r.rsi_9[1], 115)
    /\ RatioAbove(r.rsi_9[1], r.ema_rsi_9_3[1], 105)
    /\ RatioAtLeast(r.ema_rsi_9_3[1], r.wma_rsi_9_21[1], 100)
    /\ r.rsi_3[1] < 6000
    /\ r.rsi_3_weekly[1] > 6000
    /\ r.rsi_3_monthly[1] > 5000

\* C9: in both modules apply_hilega_milega_logic returns exactly the rows
\* of its input for which close >= 60, rsi_3/rsi_9 >= 1.15,
\* rsi_9/ema_rsi_9_3 > 1.05, ema_rsi_9_3/wma_rsi_9_21 >= 1.00, rsi_3 < 60,
\* weekly rsi_3 > 60 and monthly rsi_3 > 50 all hold.
C9_ReturnsExactlyRowsMeetingSevenConditions ==
    Scanned => Val(hm_signals).rows = {r \in hm_frame : SevenConditions(r)}

\* The scanner thresholds of config/constants.py, in hundredths.
HILEGA_MIN_CLOSE_PRICE == 10000
HILEGA_RSI_3_RSI_9_THRESHOLD == 115
HILEGA_RSI_9_EMA_THRESHOLD == 104
HILEGA_EMA_WMA_THRESHOLD == 100
HILEGA_RSI_3_MAX == 6000
HILEGA_RSI_3_WEEKLY_MIN == 5000
HILEGA_RSI_3_MONTHLY_MIN == 5000

\* The seven conditions with the configured constants as thresholds.
ConfiguredConditions(r) ==
    /\ ColGe(r.close, HILEGA_MIN_CLOSE_PRICE)
    /\ QuotGe(FloatDiv(r.rsi_3, r.rsi_9), HILEGA_RSI_3_RSI_9_THRESHOLD)
    /\ QuotGt(FloatDiv(r.rsi_9, r.ema_rsi_9_3), HILEGA_RSI_9_EMA_THRESHOLD)
    /\ QuotGe(FloatDiv(r.ema_rsi_9_3, r.wma_rsi_9_21), HILEGA_EMA_WMA_THRESHOLD)
    /\ ColLt(r.rsi_3, HILEGA_RSI_3_MAX)
    /\ ColGt(r.rsi_3_weekly, HILEGA_RSI_3_WEEKLY_MIN)
    /\ ColGt(r.rsi_3_monthly, HILEGA_RSI_3_MONTHLY_MIN)

\* C26: the thresholds the HM rule applies are the configured constants
\* HILEGA_MIN_CLOSE_PRICE, HILEGA_RSI_3_RSI_9_THRESHOLD,
\* HILEGA_RSI_9_EMA_THRESHOLD, HILEGA_EMA_WMA_THRESHOLD, HILEGA_RSI_3_MAX,
\* HILEGA_RSI_3_WEEKLY_MIN and HILEGA_RSI_3_MONTHLY_MIN: the rule returns
\* the rows that meet the seven conditions with those thresholds.
C26_RuleAppliesConfiguredThresholds ==
    Scanned => Val(hm_signals).rows = {r \in hm_frame : ConfiguredConditions(r)}

\* The multi-year module scanned a two-row frame, kept one row and
\* dropped the other.
C9_Witness ==
    /\ Scanned
    /\ Val(hm_signals).module = "scanner_HM_multi"
    /\ Cardinality(hm_frame) = 2
    /\ Cardinality(Val(hm_signals).rows) = 1

\* The row of C10 with a given RSI(3): close 65, RSI(9) 55, EMA 52,
\* WMA 50, weekly RSI(3) 65, monthly RSI(3) 55.
IsExampleRow(r, rsi_3) ==
    /\ r.close = Some(6500)
    /\ r.rsi_3 = Some(rsi_3)
    /\ r.rsi_9 = Some(5500)
    /\ r.ema_rsi_9_3 = Some(5200)
    /\ r.wma_rsi_9_21 = Some(5000)
    /\ r.rsi_3_weekly = Some(6500)
    /\ r.rsi_3_monthly = Some(5500)

ScannedByHM == Scanned /\ Val(hm_signals).module = "scanner_HM"

\* C10 (as stated): the HM scanner excludes the example row when
\* RSI(3) = 65 and includes it as a signal when RSI(3) = 58.
C10_ExcludedAt65IncludedAt58 ==
    ScannedByHM =>
        \A r \in hm_frame :
            /\ IsExampleRow(r, 6500) => r \notin Val(hm_signals).rows
            /\ IsExampleRow(r, 5800) => r \in Val(hm_signals).rows

\* C10 (amended): the HM scanner excludes the example row both when
\* RSI(3) = 65 and when RSI(3) = 58, where rsi_3/rsi_9 = 58/55 < 1.15.
C10_ExcludedAt65AndAt58 ==
    ScannedByHM =>
        \A r \in hm_frame :
            IsExampleRow(r, 6500) \/ IsExampleRow(r, 5800)
                => r \notin Val(hm_signals).rows

\* The HM scanner scanned a frame holding the example row with
\* RSI(3) = 58 and returned a signal for another row of the frame.
C10_Witness ==
    /\ ScannedByHM
    /\ \E r \in hm_frame : IsExampleRow(r, 5800)
    /\ Val(hm_signals).rows # {}

\* ---------------------------------------------------------------------
\* The weekly scanner (scanners/scanner_weekly.py) and the Play scanner
\* (scanners/scanner_play.py) over the same weekly store.
\* A weekly date is the ordinal of its week.  Column values are Null or
\* Some(v), v in hundredths.
\* ---------------------------------------------------------------------

\* Comparisons of two columns; False when either is NaN.
ColsGt(a, b) == a # NaN /\ b # NaN /\ Val(a) > Val(b)
ColsGe(a, b) == a # NaN /\ b # NaN /\ Val(a) >= Val(b)
ColsLe(a, b) == a # NaN /\ b # NaN /\ Val(a) <= Val(b)
ColsLt(a, b) == a # NaN /\ b # NaN /\ Val(a) < Val(b)

\* The rows of a history that precede row r in its window
\* (PARTITION BY symbol_id ORDER BY date), latest first.
Preceding(history, r) ==
    LET before == {q \in history : q.symbol_id = r.symbol_id /\ q.date < r.date}
    IN  [i \in 1..Cardinality(before) |->
            CHOOSE q \in before :
                Cardinality({x \in before : x.date > q.date}) = i - 1]

\* weekly_with_lookbacks: each row of the history with LAG(weekly_close, 1),
\* LAG(sma_20, 2) and MIN(weekly_low) over ROWS BETWEEN 4 PRECEDING AND
\* 1 PRECEDING, each NULL when the window holds no such row.
WeeklyWithLookbacks(history) ==
    { LET prev == Preceding(history, r)
          lows == {Val(prev[i].weekly_low) :
                     i \in {j \in 1..Len(prev) : j <= 4 /\ prev[j].weekly_low # Null}}
      IN  [ row |-> r,
            close_1w_ago |-> IF Len(prev) >= 1 THEN prev[1].weekly_close ELSE Null,
            sma_20_2w_ago |-> IF Len(prev) >= 2 THEN prev[2].sma_20 ELSE Null,
            min_low_4w_ago |-> IF lows = {} THEN Null ELSE Some(SetMin(lows)) ]
      : r \in history }

\* fetch_base_data_for_scan_date: the history is every weekly row of an
\* active symbol dated on or before the scan date; the frame is the rows
\* of that history dated on the scan date.
fetch_base_data_for_scan_date(scan_date) ==
    LET weekly_history == {r \in wk_rows : r.date <= scan_date /\ r.is_active}
    IN  {x \in WeeklyWithLookbacks(weekly_history) : x.row.date = scan_date}

\* fetch_weekly_data_for_range: the history is every weekly row of an
\* active symbol dated inside the range; the frame is every row of it.
fetch_weekly_data_for_range(start_date, end_date) ==
    LET weekly_history ==
            {r \in wk_rows : /\ start_date <= r.date
                             /\ r.date <= end_date
                             /\ r.is_active}
    IN  WeeklyWithLookbacks(weekly_history)

\* dropna(subset = the three lookbacks, ema_rsi_9_3, wma_rsi_9_21).
DropnaLookbacks(df) ==
    { x \in df : /\ x.close_1w_ago # NaN
                 /\ x.sma_20_2w_ago # NaN
                 /\ x.min_low_4w_ago # NaN
                 /\ x.row.ema_rsi_9_3 # NaN
                 /\ x.row.wma_rsi_9_21 # NaN }

\* apply_scanner_logic of scanner_weekly.py.
apply_scanner_logic(df) ==
    { x \in DropnaLookbacks(df) :
        /\ ColsGt(x.row.weekly_close, x.row.sma_20)
        /\ ColsLe(x.row.weekly_low, x.min_low_4w_ago)
        /\ ColsLt(x.sma_20_2w_ago, x.row.sma_20)
        /\ ColsGe(x.row.weekly_close, x.close_1w_ago)
        /\ ColGt(x.row.weekly_close, 10000)
        /\ QuotGe(FloatDiv(x.row.rsi_3_weekly, x.row.rsi_9_weekly), 115)
        /\ QuotGe(FloatDiv(x.row.rsi_9_weekly, x.row.ema_rsi_9_3), 104)
        /\ QuotGe(FloatDiv(x.row.ema_rsi_9_3, x.row.wma_rsi_9_21), 100)
        /\ ColGt(x.row.rsi_9_weekly, 5000) }

\* apply_weekly_scanner_logic of scanner_play.py.
apply_weekly_scanner_logic(df) ==
    { x \in DropnaLookbacks(df) :
        /\ ColsGt(x.row.weekly_close, x.row.sma_20)
        /\ ColsLe(x.row.weekly_low, x.min_low_4w_ago)
        /\ ColsLt(x.sma_20_2w_ago, x.row.sma_20)
        /\ ColsGe(x.row.weekly_close, x.close_1w_ago)
        /\ ColGt(x.row.weekly_close, 10000)
        /\ QuotGe(FloatDiv(x.row.rsi_3_weekly, x.row.rsi_9_weekly), 115)
        /\ QuotGe(FloatDiv(x.row.rsi_9_weekly, x.row.ema_rsi_9_3), 104)
        /\ QuotGe(FloatDiv(x.row.ema_rsi_9_3, x.row.wma_rsi_9_21), 100)
        /\ ColGt(x.row.rsi_9_weekly, 5000) }

\* The yearly files a multi-year backtest exports: one per year that
\* occurs among the signals' dates, holding the signals of that year.
YearlyFiles(df_signals) ==
    LET years == {YearOf(x.row.date) : x \in df_signals}
    IN  [yr \in years |-> {x \in df_signals : YearOf(x.row.date) = yr}]

\* scanner_backtest_multi_years: clears the folder, fetches the range,
\* applies the rule to the whole frame and exports one file per year.
\* (The evaluation of the exported files is BacktestScanners.)
ScannerBacktestMultiYears ==
    /\ LET df_weekly == fetch_weekly_data_for_range(RangeStart(play_args),
                                                    RangeEnd(play_args))
           df_signals == apply_weekly_scanner_logic(df_weekly)
       IN  play_signals' = Some([rows |-> df_signals,
                                 files |-> YearlyFiles(df_signals)])
    /\ UNCHANGED << coreVars, wk_rows, play_args, weekly_scan, calcVars,
                    aggVars, errVars, statVars, symVars, poolVars >>

\* run_scanner_weekly for one scan date.
RunScannerWeekly(scan_date) ==
    /\ weekly_scan' = Some([scan_date |-> scan_date,
                            rows |-> apply_scanner_logic(
                                        fetch_base_data_for_scan_date(scan_date))])
    /\ UNCHANGED << coreVars, wk_rows, play_args, play_signals, calcVars,
                    aggVars, errVars, statVars, symVars, poolVars >>

\* One joined weekly row (price 1wk JOIN indicator 1wk JOIN symbol).
WeeklyRow(sid, active, d, low, close, sma, rsi) ==
    [symbol_id |-> sid, is_active |-> active, date |-> d,
     weekly_low |-> Some(low), weekly_close |-> Some(close),
     sma_20 |-> Some(sma),
     rsi_3_weekly |-> rsi[1], rsi_9_weekly |-> rsi[2],
     ema_rsi_9_3 |-> rsi[3], wma_rsi_9_21 |-> rsi[4]]

\* RSI columns of a symbol: meeting the four RSI conditions, failing
\* rsi_3 / rsi_9 >= 1.15, and with ema_rsi_9_3 not yet computed.
RsiColumns ==
    { << Some(6900), Some(6000), Some(5700), Some(5700) >>,
      << Some(6500), Some(6000), Some(5700), Some(5700) >>,
      << Some(6900), Some(6000), Null, Some(5700) >> }
WeeklyLows == {9000, 9500}
WeeklyCloses == {10500, 11000}
Sma20OfWeek(w) == 10000 + 100 * w

\* The store holds one weekly bar per week for active symbol 1 and for
\* inactive symbol 2; the backtest covers lookback_years up to start_year.
InitPlay ==
    /\ symbol_table = <<1>>
    /\ price = [u \in Units |-> {}]
    /\ indicator = {}
    /\ RefreshIdle
    /\ ScanIdle
    /\ \E lows \in [1..NumDates -> WeeklyLows],
          closes \in [1..NumDates -> WeeklyCloses],
          rsi \in RsiColumns :
          wk_rows = { WeeklyRow(1, TRUE, w, lows[w], closes[w],
                                Sma20OfWeek(w), rsi) : w \in 1..NumDates }
                    \cup
                    { WeeklyRow(2, FALSE, w, 9000, 11000 + w, Sma20OfWeek(w),
                                << Some(6900), Some(6000), Some(5700), Some(5700) >>)
                        : w \in 1..NumDates }
    /\ \E start_year \in 1..MaxYears :
          \E lookback_years \in 1..start_year :
             play_args = [start_year |-> start_year,
                          lookback_years |-> lookback_years]
    /\ play_signals = Null
    /\ weekly_scan = Null
    /\ CalcIdle
    /\ AggIdle
    /\ ErrIdle
    /\ StatIdle
    /\ SymIdle
    /\ PoolIdle

NextPlay ==
    \/ ScannerBacktestMultiYears
    \/ \E d \in 1..NumDates : RunScannerWeekly(d)

SpecPlay == InitPlay /\ [][NextPlay]_vars

\* Both scanners have run, the weekly one for a date inside the range.
BothScanned ==
    /\ play_signals # Null
    /\ weekly_scan # Null
    /\ RangeStart(play_args) <= Val(weekly_scan).scan_date
    /\ Val(weekly_scan).scan_date <= RangeEnd(play_args)

\* C11: for every weekly date d inside the backtest range, the symbols the
\* Play scanner flags on d are the symbols run_scanner_weekly returns for
\* scan date d over the same stored data, the first weeks included.
C11_PlayFlagsWhatWeeklyScanReturns ==
    BothScanned =>
        {x.row.symbol_id : x \in {y \in Val(play_signals).rows :
                                    y.row.date = Val(weekly_scan).scan_date}}
          = {x.row.symbol_id : x \in Val(weekly_scan).rows}

\* A signal's lookbacks are taken over the four rows preceding it in the
\* history, of which there are at least four.
LookbacksOverFourRows(history, x) ==
    LET prev == Preceding(history, x.row)
    IN  /\ Len(prev) >= 4
        /\ x.close_1w_ago = prev[1].weekly_close
        /\ x.sma_20_2w_ago = prev[2].sma_20
        /\ x.min_low_4w_ago = Some(SetMin({Val(prev[i].weekly_low) : i \in 1..4}))

\* C23: in the Weekly and Play scanners close_1w_ago is the close of the
\* symbol's row 1 back, sma_20_2w_ago the sma_20 of the row 2 back and
\* min_low_4w_ago the minimum low of exactly the 4 rows preceding the row,
\* and a row with fewer than 4 preceding weekly rows in the history
\* considered is never returned as a signal.
C23_SignalsHaveFourPrecedingRows ==
    /\ weekly_scan # Null =>
          \A x \in Val(weekly_scan).rows :
              LookbacksOverFourRows({r \in wk_rows :
                                       /\ r.date <= Val(weekly_scan).scan_date
                                       /\ r.is_active}, x)
    /\ play_signals # Null =>
          \A x \in Val(play_signals).rows :
              LookbacksOverFourRows({r \in wk_rows :
                                       /\ RangeStart(play_args) <= r.date
                                       /\ r.date <= RangeEnd(play_args)
                                       /\ r.is_active}, x)

\* ---------------------------------------------------------------------
\* The yearly export of the two multi-year backtests
\* (scanners/scanner_HM_multi.py, scanners/scanner_play.py).
\* ---------------------------------------------------------------------

\* The store of a yearly export covers one calendar year more than
\* MaxYears, so that a range of three years occurs.
YearlyDates == 1..(DatesPerYear * (MaxYears + 1))

\* The joined daily row of symbol 1 on date d: meeting the seven
\* conditions of scanner_HM_multi, or failing rsi_3 < 60.
HmRowOn(d, flagged) ==
    [HmRow(1, 6500, IF flagged THEN 5999 ELSE 6500, 4200, 3999, 3999, 6500, 5500)
        EXCEPT !.date = d]

\* The weekly bar of symbol 1 in week w with a given low; the other
\* columns meet the Play conditions.
WeeklyRowOn(w, low) ==
    WeeklyRow(1, TRUE, w, low, 12000, Sma20OfWeek(w),
              << Some(6900), Some(6000), Some(5700), Some(5700) >>)

\* One daily row and one weekly bar of symbol 1 per date; either the daily
\* rows vary in what the HM rule flags, or the weekly bars vary in their
\* lows.
InitYearly ==
    /\ symbol_table = <<1>>
    /\ price = [u \in Units |-> {}]
    /\ indicator = {}
    /\ RefreshIdle
    /\ signals = {}
    /\ trades = Null
    /\ \/ /\ \E flagged \in [YearlyDates -> BOOLEAN] :
                hm_frame = { HmRowOn(d, flagged[d]) : d \in YearlyDates }
          /\ wk_rows = { WeeklyRowOn(w, 9000) : w \in YearlyDates }
       \/ /\ hm_frame = { HmRowOn(d, TRUE) : d \in YearlyDates }
          /\ \E lows \in [YearlyDates -> WeeklyLows] :
                wk_rows = { WeeklyRowOn(w, lows[w]) : w \in YearlyDates }
    /\ \E start_year \in 1..(MaxYears + 1) :
          \E lookback_years \in 1..start_year :
             play_args = [start_year |-> start_year,
                          lookback_years |-> lookback_years]
    /\ hm_signals = Null
    /\ play_signals = Null
    /\ weekly_scan = Null
    /\ CalcIdle
    /\ AggIdle
    /\ ErrIdle
    /\ StatIdle
    /\ SymIdle
    /\ PoolIdle

NextYearly ==
    \/ ScannerBacktestMultiYearsHm
    \/ ScannerBacktestMultiYears

SpecYearly == InitYearly /\ [][NextYearly]_vars

\* The years of a backtest range.
RangeYears(args) == (args.start_year - args.lookback_years + 1)..args.start_year

\* C19: in a multi-year backtest (HM and Play), every signal is exported in
\* exactly one yearly file, the one named after the calendar year of its
\* date; every exported signal is dated inside the range from the first
\* date of year start_year - lookback_years + 1 to the last date of
\* start_year; and no file is exported for a year without signals.
C19_SignalsPartitionedByYear ==
    /\ hm_signals # Null =>
          LET files == Val(hm_signals).files
          IN  /\ \A r \in Val(hm_signals).rows :
                    {yr \in DOMAIN files : r \in files[yr]} = {YearOf(r.date)}
              /\ \A yr \in DOMAIN files :
                    /\ files[yr] # {}
                    /\ files[yr] \subseteq Val(hm_signals).rows
                    /\ \A r \in files[yr] :
                          /\ RangeStart(play_args) <= r.date
                          /\ r.date <= RangeEnd(play_args)
    /\ play_signals # Null =>
          LET files == Val(play_signals).files
          IN  /\ \A x \in Val(play_signals).rows :
                    {yr \in DOMAIN files : x \in files[yr]} = {YearOf(x.row.date)}
              /\ \A yr \in DOMAIN files :
                    /\ files[yr] # {}
                    /\ files[yr] \subseteq Val(play_signals).rows
                    /\ \A x \in files[yr] :
                          /\ RangeStart(play_args) <= x.row.date
                          /\ x.row.date <= RangeEnd(play_args)

\* Both backtests have exported signals of two years, the HM one none for
\* a year of the range between them.
C19_Witness ==
    /\ hm_signals # Null
    /\ play_signals # Null
    /\ Cardinality(DOMAIN Val(hm_signals).files) = 2
    /\ \E yr \in RangeYears(play_args) :
          /\ yr \notin DOMAIN Val(hm_signals).files
          /\ \E a, b \in DOMAIN Val(hm_signals).files : a < yr /\ yr < b
    /\ Cardinality(DOMAIN Val(play_signals).files) = 2

\* ---------------------------------------------------------------------
\* The HM scanners over the store: the query of
\* get_hilega_milega_base_data (scanners/scanner_HM.py) and of
\* fetch_hilega_milega_data_for_range (scanners/scanner_HM_multi.py).
\* An indicator row holds rsi_3, rsi_9, ema_rsi_9_3 and wma_rsi_9_21.
\* ---------------------------------------------------------------------

\* The LATERAL subquery with the symbol of any row allowed.
AsOfRsi3_AnySymbol(rows, symbol_id, timeframe, d) ==
    LET cand == {w \in rows : w.timeframe = timeframe /\ w.date <= d}
    IN  IF cand = {} THEN Null
        ELSE (CHOOSE w \in cand : \A v \in cand :
                 v.date < w.date \/ (v.date = w.date /\ v.symbol_id >= w.symbol_id)).rsi_3

\* LEFT JOIN LATERAL (SELECT rsi_3 FROM {indicator_table} w
\*   WHERE w.symbol_id = d.symbol_id AND w.timeframe = ... AND w.date <= d.date
\*   ORDER BY w.date DESC LIMIT 1) ON TRUE: NULL when no row qualifies.
AsOfRsi3(rows, symbol_id, timeframe, d) ==
    LET cand == {w \in rows : /\ w.symbol_id = symbol_id
                              /\ w.timeframe = timeframe
                              /\ w.date <= d}
    IN  IF cand = {} THEN Null
        ELSE (CHOOSE w \in cand : \A v \in cand : v.date <= w.date).rsi_3

\* FROM {indicator_table} d JOIN {price_table} p ... JOIN {symbol_table} s
\* ... with the two LATERAL joins: the rows of the symbols in `symbols`.
HmJoin(symbols) ==
    { [ symbol_id |-> d.symbol_id, date |-> d.date,
        close |-> Some(p.close),
        rsi_3 |-> d.rsi_3, rsi_9 |-> d.rsi_9,
        ema_rsi_9_3 |-> d.ema_rsi_9_3, wma_rsi_9_21 |-> d.wma_rsi_9_21,
        rsi_3_weekly |-> AsOfRsi3(indicator, d.symbol_id, "1wk", d.date),
        rsi_3_monthly |-> AsOfRsi3(indicator, d.symbol_id, "1mo", d.date) ]
      : << d, p >> \in
          { x \in {i \in indicator : i.timeframe = "1d"
                                     /\ i.symbol_id \in symbols}
                  \X UNION {price[<<"1d", sid>>] : sid \in symbols} :
              /\ x[2] \in price[<<"1d", x[1].symbol_id>>]
              /\ x[2].date = x[1].date } }

StoredSymbols == {symbol_table[i] : i \in 1..Len(symbol_table)}

\* get_hilega_milega_base_data: WHERE d.timeframe='1d' AND d.date = scan_date.
get_hilega_milega_base_data(scan_date) ==
    {r \in HmJoin(StoredSymbols) : r.date = scan_date}

\* fetch_hilega_milega_data_for_range over the store: WHERE d.timeframe='1d'
\* AND d.date BETWEEN start_date AND end_date AND s.is_active=TRUE.
FetchHilegaMilegaDataForRange(start_date, end_date) ==
    {r \in HmJoin({sid \in StoredSymbols : is_active[sid]}) :
        start_date <= r.date /\ r.date <= end_date}

\* run_scanner_hilega_milega(scan_date) over the store.
RunScannerHilegaMilegaOn(scan_date) ==
    LET df_base == get_hilega_milega_base_data(scan_date)
    IN  /\ hm_frame' = df_base
        /\ hm_signals' = Some([module |-> "scanner_HM", scan_date |-> scan_date,
                               rows |-> apply_hilega_milega_logic(df_base)])
        /\ UNCHANGED << symbol_table, price, indicator, pending, txAborted, pc,
                        cursor, lookback_rows, faults, runs, hist, signals,
                        trades, extVars >>

\* scanner_backtest_multi_years_hm over the store.
ScannerBacktestMultiYearsHmOn ==
    LET df_hm == FetchHilegaMilegaDataForRange(RangeStart(play_args),
                                               RangeEnd(play_args))
        df_signals == apply_hilega_milega_logic_multi(df_hm)
    IN  /\ hm_frame' = df_hm
        /\ hm_signals' = Some([module |-> "scanner_HM_multi",
                               rows |-> df_signals,
                               files |-> HmYearlyFiles(df_signals)])
        /\ UNCHANGED << symbol_table, price, indicator, pending, txAborted, pc,
                        cursor, lookback_rows, faults, runs, hist, signals,
                        trades, extVars >>

\* A daily indicator row that meets the conditions on the daily columns,
\* and a weekly or monthly row with a given rsi_3 (the other columns are
\* not read by the query).
DailyIndicatorRow(sid, d) ==
    [timeframe |-> "1d", symbol_id |-> sid, date |-> d, rsi_3 |-> Some(5999),
     rsi_9 |-> Some(4200), ema_rsi_9_3 |-> Some(3999), wma_rsi_9_21 |-> Some(3999)]
HigherIndicatorRow(timeframe, sid, d, rsi_3) ==
    [timeframe |-> timeframe, symbol_id |-> sid, date |-> d, rsi_3 |-> Some(rsi_3),
     rsi_9 |-> Some(5000), ema_rsi_9_3 |-> Some(5000), wma_rsi_9_21 |-> Some(5000)]

\* rsi_3 values of a weekly and of a monthly row, above and below the
\* rule's minimum; calculate_rsi_series leaves no rsi_3 null.
WeeklyRsi3 == {6500, 5500}
MonthlyRsi3 == {5500, 4500}

\* Two symbols, each active or not, with a daily bar and a daily
\* indicator row on every date; symbol 1 has weekly rows on some of the
\* dates 1 and 3 and monthly rows on some of the dates 1 and 2, symbol 2 a
\* weekly row on date 2 and a monthly row on date 1.
InitJoin ==
    /\ symbol_table = <<1, 2>>
    /\ is_active \in [{1, 2} -> BOOLEAN]
    /\ PoolIdle
    /\ price = [u \in Timeframes \X SymbolIds |->
                  IF u[1] = "1d"
                  THEN {[date |-> d, open |-> 6400, close |-> 6500] : d \in 1..NumDates}
                  ELSE {}]
    /\ \E wk \in SUBSET ({1, 3} \X WeeklyRsi3), mo \in SUBSET ({1, 2} \X MonthlyRsi3) :
          /\ \A x, y \in wk : x[1] = y[1] => x = y
          /\ \A x, y \in mo : x[1] = y[1] => x = y
          /\ indicator =
                { DailyIndicatorRow(sid, d) : sid \in {1, 2}, d \in 1..NumDates }
                \cup { HigherIndicatorRow("1wk", 1, x[1], x[2]) : x \in wk }
                \cup { HigherIndicatorRow("1mo", 1, x[1], x[2]) : x \in mo }
                \cup { HigherIndicatorRow("1wk", 2, 2, 7000),
                       HigherIndicatorRow("1mo", 2, 1, 5600) }
    /\ \E start_year \in 1..MaxYears :
          \E lookback_years \in 1..start_year :
             play_args = [start_year |-> start_year,
                          lookback_years |-> lookback_years]
    /\ RefreshIdle
    /\ ScanIdle
    /\ wk_rows = {}
    /\ play_signals = Null
    /\ weekly_scan = Null
    /\ CalcIdle
    /\ AggIdle
    /\ ErrIdle
    /\ StatIdle

NextJoin ==
    \/ \E scan_date \in 1..NumDates : RunScannerHilegaMilegaOn(scan_date)
    \/ ScannerBacktestMultiYearsHmOn

SpecJoin == InitJoin /\ [][NextJoin]_vars

\* The weekly (monthly) indicator rows of a symbol dated on or before d.
RowsOnOrBefore(symbol_id, timeframe, d) ==
    {w \in indicator : w.symbol_id = symbol_id /\ w.timeframe = timeframe
                       /\ w.date <= d}

\* v is the rsi_3 of the latest row of rows, null exactly when there is
\* none.
IsRsi3OfLatest(v, rows) ==
    /\ v = Null <=> rows = {}
    /\ rows # {} => \E w \in rows : /\ \A x \in rows : x.date <= w.date
                                    /\ v = w.rsi_3

\* C24: for every daily row (symbol, date d) an HM scanner evaluates,
\* rsi_3_weekly is the rsi_3 of that symbol's weekly indicator row with the
\* greatest date <= d and rsi_3_monthly the rsi_3 of its monthly indicator
\* row with the greatest date <= d, each null exactly when the symbol has
\* no such row.
C24_AsOfJoinTakesLatestRowOfSymbol ==
    hm_signals # Null =>
        \A r \in hm_frame :
            /\ IsRsi3OfLatest(r.rsi_3_weekly,
                              RowsOnOrBefore(r.symbol_id, "1wk", r.date))
            /\ IsRsi3OfLatest(r.rsi_3_monthly,
                              RowsOnOrBefore(r.symbol_id, "1mo", r.date))

\* A scan evaluated a row of symbol 1 with two weekly rows of different
\* rsi_3 on or before its date (a weekly row of symbol 2 dated between
\* them) and a row of symbol 2 dated before its only weekly row.
C24_Witness ==
    /\ hm_signals # Null
    /\ \E r \in hm_frame :
          /\ r.symbol_id = 1
          /\ Cardinality({w.rsi_3 : w \in RowsOnOrBefore(1, "1wk", r.date)}) = 2
          /\ r.rsi_3_weekly # Null
    /\ \E r \in hm_frame : r.symbol_id = 2 /\ r.rsi_3_weekly = Null

\* C28: for every date d in the backtest range, the HM signals that
\* scanner_backtest_multi_years_hm exports for date d are the signals
\* run_scanner_hilega_milega returns for scan date d over the same stored
\* data, for every symbol in the symbol table whatever its flags.
C28_MultiYearSignalsEqualSingleDateScan ==
    hm_signals # Null /\ Val(hm_signals).module = "scanner_HM_multi" =>
        \A d \in RangeStart(play_args)..RangeEnd(play_args) :
            UNION {Val(hm_signals).files[yr] \cap {r \in hm_frame : r.date = d}
                     : yr \in DOMAIN Val(hm_signals).files}
            = apply_hilega_milega_logic(get_hilega_milega_base_data(d))

\* ---------------------------------------------------------------------
\* The three scanners over rows with nulls in the fields their rules read.
\* ---------------------------------------------------------------------

HmFields ==
    {"close", "rsi_3", "rsi_9", "ema_rsi_9_3", "wma_rsi_9_21",
     "rsi_3_weekly", "rsi_3_monthly"}
WeeklyFields ==
    {"weekly_low", "weekly_close", "sma_20", "rsi_3_weekly", "rsi_9_weekly",
     "ema_rsi_9_3", "wma_rsi_9_21"}

\* A row with the fields in nulls set to NULL.
WithNulls(row, nulls) ==
    [f \in DOMAIN row |-> IF f \in nulls THEN Null ELSE row[f]]

\* The (week, field) places whose value a rule reads for the row of week
\* 3: the row's own fields, the close 1 row back, the sma_20 2 rows back
\* and the lows of the rows before it.
NullPlaces ==
    ({3} \X WeeklyFields)
    \cup {<<2, "weekly_close">>, <<1, "sma_20">>, <<1, "weekly_low">>,
          <<2, "weekly_low">>}

\* One daily row of symbol 1 on date 1 and its weekly rows of weeks 1 to
\* 3, all meeting the rules but for at most two nulls in the daily row and
\* at most two among the weekly rows.
InitNulls ==
    /\ symbol_table = <<1>>
    /\ price = [u \in Units |-> {}]
    /\ indicator = {}
    /\ RefreshIdle
    /\ signals = {}
    /\ trades = Null
    /\ \E nulls \in {N \in SUBSET HmFields : Cardinality(N) <= 2} :
          hm_frame = {WithNulls(HmRowOn(1, TRUE), nulls)}
    /\ hm_signals = Null
    /\ \E places \in {P \in SUBSET NullPlaces : Cardinality(P) <= 2} :
          wk_rows = { WithNulls(WeeklyRowOn(w, 9000),
                                {f \in WeeklyFields : <<w, f>> \in places})
                      : w \in 1..3 }
    /\ play_args = [start_year |-> MaxYears, lookback_years |-> MaxYears]
    /\ play_signals = Null
    /\ weekly_scan = Null
    /\ CalcIdle
    /\ AggIdle
    /\ ErrIdle
    /\ StatIdle
    /\ SymIdle
    /\ PoolIdle

NextNulls ==
    \/ RunScannerHilegaMilega
    \/ ScannerBacktestMultiYearsHm
    \/ \E d \in 1..NumDates : RunScannerWeekly(d)
    \/ ScannerBacktestMultiYears

SpecNulls == InitNulls /\ [][NextNulls]_vars

\* No field the weekly rule reads is null in x.
NoNullWeeklyField(x) ==
    /\ \A f \in WeeklyFields : x.row[f] # Null
    /\ x.close_1w_ago # Null
    /\ x.sma_20_2w_ago # Null
    /\ x.min_low_4w_ago # Null

\* C25: no signal returned by any scanner (HM, Weekly, Play) has a null in
\* a field its rule reads.
C25_NoSignalWithNullField ==
    /\ hm_signals # Null =>
          \A r \in Val(hm_signals).rows : \A f \in HmFields : r[f] # Null
    /\ weekly_scan # Null =>
          \A x \in Val(weekly_scan).rows : NoNullWeeklyField(x)
    /\ play_signals # Null =>
          \A x \in Val(play_signals).rows : NoNullWeeklyField(x)

\* The three scanners have run: the HM scanner dropped a row whose only
\* null is the monthly rsi_3, the Weekly scanner (for week 3) and the Play
\* scanner dropped the row of week 3, whose only null is the sma_20 two
\* rows back.
C25_Witness ==
    /\ hm_signals # Null /\ Val(hm_signals).rows = {}
    /\ \E r \in hm_frame : \A f \in HmFields : r[f] = Null <=> f = "rsi_3_monthly"
    /\ weekly_scan # Null
    /\ Val(weekly_scan).scan_date = 3
    /\ Val(weekly_scan).rows = {}
    /\ play_signals # Null
    /\ \A x \in Val(play_signals).rows : x.row.date # 3
    /\ \A r \in wk_rows : \A f \in WeeklyFields :
          r[f] = Null <=> (r.date = 1 /\ f = "sma_20")

\* ---------------------------------------------------------------------
\* The indicator functions of services/indicators_helper.py.  A series
\* is a sequence; prices are in hundredths; a smoothed mean is an exact
\* fraction [num, den] of hundredths, den > 0, in lowest terms.
\* ---------------------------------------------------------------------

MaxRows == 11           \* rows of the frame handed to an indicator function

Abs(x) == IF x < 0 THEN -x ELSE x

RECURSIVE Gcd(_, _)
Gcd(a, b) == IF b = 0 THEN a ELSE Gcd(b, a % b)

Frac(n, d) ==
    LET g == Gcd(Abs(n), d)
    IN  IF n = 0 THEN [num |-> 0, den |-> 1] ELSE [num |-> n \div g, den |-> d \div g]

\* round(2) of a fraction of hundredths: the nearest hundredth, a tie
\* going to the even one.
RoundFrac(q) ==
    LET fl == q.num \div q.den
        twice == 2 * (q.num - fl * q.den)
    IN  IF twice < q.den THEN fl
        ELSE IF twice > q.den THEN fl + 1
        ELSE IF fl % 2 = 0 THEN fl ELSE fl + 1

\* x.ewm(alpha = 1/period, adjust = False, min_periods = period).mean():
\* the mean starts at the first non-NaN observation, each later
\* observation x gives (1 - alpha) * mean + alpha * x, and a row is NaN
\* until period observations have been seen.  acc holds the rows done,
\* mean the running mean (Null before the first observation), nobs the
\* observations seen.
RECURSIVE EwmLoop(_, _, _, _, _)
EwmLoop(x, period, acc, mean, nobs) ==
    IF Len(acc) = Len(x) THEN acc
    ELSE LET i == Len(acc) + 1
             seen == IF x[i] = NaN THEN nobs ELSE nobs + 1
             m == IF x[i] = NaN THEN mean
                  ELSE IF mean = Null THEN Some(Frac(Val(x[i]), 1))
                  ELSE Some(Frac((period - 1) * Val(mean).num
                                    + Val(x[i]) * Val(mean).den,
                                 period * Val(mean).den))
             out == IF seen >= period /\ x[i] # NaN THEN m ELSE NaN
         IN  EwmLoop(x, period, Append(acc, out), m, seen)

EwmMean(x, period) == EwmLoop(x, period, <<>>, Null, 0)

\* calculate_atr: the true range of a row is the largest of high - low,
\* |high - previous close| and |low - previous close|, the last two NaN
\* (skipped by max) on the first row; the ATR is its smoothed mean,
\* rounded to 2 places.
calculate_atr(df, period) ==
    LET tr == [i \in 1..Len(df) |->
                 LET high_low == df[i].high - df[i].low
                 IN  IF i = 1 THEN Some(high_low)
                     ELSE Some(SetMax({high_low,
                                       Abs(df[i].high - df[i - 1].close),
                                       Abs(df[i].low - df[i - 1].close)}))]
        atr == EwmMean(tr, period)
    IN  [i \in 1..Len(df) |->
            IF atr[i] = NaN THEN NaN ELSE Some(RoundFrac(Val(atr[i])))]

\* The first loop of calculate_supertrend, for the upper and for the
\* lower band; a comparison with NaN is False.
RECURSIVE final_ub(_, _, _)
final_ub(basic_ub, df, acc) ==
    IF Len(acc) = Len(df) THEN acc
    ELSE LET i == Len(acc) + 1
             v == IF i = 1 THEN basic_ub[1]
                  ELSE IF \/ ColsLt(basic_ub[i], acc[i - 1])
                          \/ ColsGt(Some(df[i - 1].close), acc[i - 1])
                       THEN basic_ub[i]
                       ELSE acc[i - 1]
         IN  final_ub(basic_ub, df, Append(acc, v))

RECURSIVE final_lb(_, _, _)
final_lb(basic_lb, df, acc) ==
    IF Len(acc) = Len(df) THEN acc
    ELSE LET i == Len(acc) + 1
             v == IF i = 1 THEN basic_lb[1]
                  ELSE IF \/ ColsGt(basic_lb[i], acc[i - 1])
                          \/ ColsLt(Some(df[i - 1].close), acc[i - 1])
                       THEN basic_lb[i]
                       ELSE acc[i - 1]
         IN  final_lb(basic_lb, df, Append(acc, v))

\* The second loop: supertrend and direction row by row.
RECURSIVE TrendLoop(_, _, _, _, _)
TrendLoop(df, ub, lb, supertrend, direction) ==
    IF Len(direction) = Len(df) THEN [supertrend |-> supertrend,
                                      direction |-> direction]
    ELSE LET i == Len(direction) + 1
         IN  IF i = 1
             THEN TrendLoop(df, ub, lb, << ub[1] >>, << -1 >>)
             ELSE IF ColsGt(Some(df[i].close), supertrend[i - 1])
             THEN TrendLoop(df, ub, lb, Append(supertrend, lb[i]),
                            Append(direction, 1))
             ELSE TrendLoop(df, ub, lb, Append(supertrend, ub[i]),
                            Append(direction, -1))

\* calculate_supertrend(df, atr_period, multiplier).  (high + low) / 2 is
\* taken for frames whose high + low is a whole number of 2 hundredths.
\* The bands are whole hundredths, which the final round(2) keeps.
\* On an empty frame supertrend.iloc[0] raises, and the wrapper returns
\* two empty series.
calculate_supertrend(df, atr_period, multiplier) ==
    LET atr == calculate_atr(df, atr_period)
        hl2 == [i \in 1..Len(df) |-> (df[i].high + df[i].low) \div 2]
        basic_ub == [i \in 1..Len(df) |->
                        IF atr[i] = NaN THEN NaN
                        ELSE Some(hl2[i] + multiplier * Val(atr[i]))]
        basic_lb == [i \in 1..Len(df) |->
                        IF atr[i] = NaN THEN NaN
                        ELSE Some(hl2[i] - multiplier * Val(atr[i]))]
    IN  IF Len(df) = 0 THEN [supertrend |-> <<>>, direction |-> <<>>]
        ELSE TrendLoop(df, final_ub(basic_ub, df, <<>>),
                       final_lb(basic_lb, df, <<>>), <<>>, <<>>)

AtrPeriod == 10         \* atr_period of calculate_supertrend
Multiplier == 3         \* multiplier of calculate_supertrend

\* The call made with the default atr_period and multiplier.
CalculateSupertrend ==
    /\ ind_output = Null
    /\ ind_output' = Some(calculate_supertrend(ind_input, AtrPeriod, Multiplier))
    /\ UNCHANGED << coreVars, playVars, ind_input, aggVars, errVars, statVars,
                    symVars, poolVars >>

\* Frames of daily bars: the close starts at 100.00 and moves by one of
\* CloseSteps from row to row, high and low lie one of HalfRanges above
\* and below the close.
CloseSteps == {-100, 100, 200}
HalfRanges == {200, 300}

RECURSIVE BarsFrom(_, _, _)
BarsFrom(close, h, steps) ==
    IF steps = <<>> THEN << [high |-> close + h, low |-> close - h,
                             close |-> close] >>
    ELSE << [high |-> close + h, low |-> close - h, close |-> close] >>
            \o BarsFrom(close + Head(steps), h, Tail(steps))

InitSupertrend ==
    /\ symbol_table = <<1>>
    /\ price = [u \in Units |-> {}]
    /\ indicator = {}
    /\ RefreshIdle
    /\ ScanIdle
    /\ PlayIdle
    /\ \/ ind_input = <<>>
       \/ \E n \in 1..MaxRows, h \in HalfRanges :
            \E steps \in [1..(n - 1) -> CloseSteps] :
                ind_input = BarsFrom(10000, h, steps)
    /\ ind_output = Null
    /\ AggIdle
    /\ ErrIdle
    /\ StatIdle
    /\ SymIdle
    /\ PoolIdle

NextSupertrend == CalculateSupertrend

SpecSupertrend == InitSupertrend /\ [][NextSupertrend]_vars

\* The closes of the frame rise strictly from row to row.
StrictlyRising(df) ==
    \A i \in 2..Len(df) : df[i].close > df[i - 1].close

\* C12: calculate_supertrend (atr_period 10, multiplier 3) gives direction
\* +1 or -1 on every row, and on a strictly rising close series longer
\* than the ATR warm-up there is a row from which direction is +1 on
\* every later row.
C12_DirectionSignedAndRisingTurnsUp ==
    ind_output # Null =>
        LET direction == Val(ind_output).direction
            n == Len(ind_input)
        IN  /\ Len(direction) = n
            /\ \A i \in 1..n : direction[i] \in {1, -1}
            /\ StrictlyRising(ind_input) /\ n > AtrPeriod
                  => \E k \in 1..n : \A j \in k..n : direction[j] = 1

\* The final upper and lower band of calculate_supertrend.
FinalBands(df, atr_period, multiplier) ==
    LET atr == calculate_atr(df, atr_period)
        hl2 == [i \in 1..Len(df) |-> (df[i].high + df[i].low) \div 2]
        basic_ub == [i \in 1..Len(df) |->
                        IF atr[i] = NaN THEN NaN
                        ELSE Some(hl2[i] + multiplier * Val(atr[i]))]
        basic_lb == [i \in 1..Len(df) |->
                        IF atr[i] = NaN THEN NaN
                        ELSE Some(hl2[i] - multiplier * Val(atr[i]))]
    IN  [upper |-> final_ub(basic_ub, df, <<>>),
         lower |-> final_lb(basic_lb, df, <<>>)]

\* C27: in calculate_supertrend, from the first row at which the ATR is
\* defined (the atr_period-th row) onward, the final upper band, the final
\* lower band and the supertrend value are non-null on every row, and the
\* supertrend value equals the final lower band where direction = +1 and
\* the final upper band where direction = -1.
C27_BandsAndSupertrendDefinedAfterWarmUp ==
    ind_output # Null =>
        LET out == Val(ind_output)
            bands == FinalBands(ind_input, AtrPeriod, Multiplier)
        IN  \A i \in AtrPeriod..Len(ind_input) :
                /\ bands.upper[i] # NaN
                /\ bands.lower[i] # NaN
                /\ out.supertrend[i] # NaN
                /\ out.direction[i] = 1 => out.supertrend[i] = bands.lower[i]
                /\ out.direction[i] = -1 => out.supertrend[i] = bands.upper[i]

\* ---------------------------------------------------------------------
\* calculate_rsi_series
\* ---------------------------------------------------------------------

MaxCloses == 5          \* rows of the close series handed to the RSI
RsiPeriod == 3          \* the period of rsi_3

\* close.diff(), delta.clip(lower=0) and -delta.clip(upper=0): NaN on
\* the first row.
Gain(close) ==
    [i \in 1..Len(close) |->
        IF i = 1 THEN NaN
        ELSE Some(IF close[i] > close[i - 1] THEN close[i] - close[i - 1] ELSE 0)]
Loss(close) ==
    [i \in 1..Len(close) |->
        IF i = 1 THEN NaN
        ELSE Some(IF close[i] < close[i - 1] THEN close[i - 1] - close[i] ELSE 0)]

avg_gain(close, period) == EwmMean(Gain(close), period)
avg_loss(close, period) == EwmMean(Loss(close), period)

\* rs = avg_gain / avg_loss.replace(0, nan), rsi = 100 - 100 / (1 + rs):
\* NaN where either mean is NaN or the mean loss is 0, else the fraction
\* 100 * avg_gain / (avg_gain + avg_loss), in hundredths.
RsiRaw(close, period) ==
    LET g == avg_gain(close, period)
        l == avg_loss(close, period)
    IN  [i \in 1..Len(close) |->
            IF g[i] = NaN \/ l[i] = NaN THEN NaN
            ELSE IF Val(l[i]).num = 0 THEN NaN
            ELSE LET gn == Val(g[i]).num * Val(l[i]).den
                     ln == Val(l[i]).num * Val(g[i]).den
                     share == Frac(gn, gn + ln)
                 IN  Some(Frac(10000 * share.num, share.den))]

\* The function without its fillna(100).
calculate_rsi_series_NoFillna(close, period) ==
    LET rsi == RsiRaw(close, period)
    IN  [i \in 1..Len(close) |->
            IF rsi[i] = NaN THEN NaN ELSE Some(RoundFrac(Val(rsi[i])))]

\* calculate_rsi_series: rsi.fillna(100).round(2).
calculate_rsi_series(close, period) ==
    LET rsi == RsiRaw(close, period)
    IN  [i \in 1..Len(close) |->
            IF rsi[i] = NaN THEN Some(10000) ELSE Some(RoundFrac(Val(rsi[i])))]

\* df["rsi_3"] = calculate_rsi_series(df["close"], 3)
CalculateRsiSeries ==
    /\ ind_output = Null
    /\ ind_output' = Some(calculate_rsi_series(ind_input, RsiPeriod))
    /\ UNCHANGED << coreVars, playVars, ind_input, aggVars, errVars, statVars,
                    symVars, poolVars >>

\* Close series: the close starts at 100.00 and moves by one of
\* CloseMoves from row to row.
CloseMoves == {-2, -1, 0, 1, 2}

RECURSIVE ClosesFrom(_, _)
ClosesFrom(close, moves) ==
    IF moves = <<>> THEN << close >>
    ELSE << close >> \o ClosesFrom(close + Head(moves), Tail(moves))

InitRsi ==
    /\ symbol_table = <<1>>
    /\ price = [u \in Units |-> {}]
    /\ indicator = {}
    /\ RefreshIdle
    /\ ScanIdle
    /\ PlayIdle
    /\ \/ ind_input = <<>>
       \/ \E n \in 1..MaxCloses :
            \E moves \in [1..(n - 1) -> CloseMoves] :
                ind_input = ClosesFrom(10000, moves)
    /\ ind_output = Null
    /\ AggIdle
    /\ ErrIdle
    /\ StatIdle
    /\ SymIdle
    /\ PoolIdle

NextRsi == CalculateRsiSeries

SpecRsi == InitRsi /\ [][NextRsi]_vars

\* C13: for every row with at least period observations
\* calculate_rsi_series returns a value in [0, 100], and exactly 100
\* (never null or infinite) where the smoothed average loss is zero.
C13_RsiInRangeAnd100AtZeroLoss ==
    ind_output # Null =>
        LET rsi == Val(ind_output)
            l == avg_loss(ind_input, RsiPeriod)
        IN  /\ Len(rsi) = Len(ind_input)
            /\ \A i \in 1..Len(ind_input) :
                  /\ i >= RsiPeriod
                        => rsi[i] # Null /\ Val(rsi[i]) >= 0 /\ Val(rsi[i]) <= 10000
                  /\ l[i] # NaN /\ Val(l[i]).num = 0
                        => rsi[i] = Some(10000)

\* The RSI was computed for a series with a row past the warm-up whose
\* smoothed average loss is zero and a row whose RSI lies strictly
\* between 0 and 100.
C13_Witness ==
    /\ ind_output # Null
    /\ LET l == avg_loss(ind_input, RsiPeriod)
       IN  /\ \E i \in 1..Len(ind_input) : l[i] # NaN /\ Val(l[i]).num = 0
           /\ \E i \in 1..Len(ind_input) :
                 /\ l[i] # NaN
                 /\ Val(Val(ind_output)[i]) > 0
                 /\ Val(Val(ind_output)[i]) < 10000

\* C22: calculate_rsi_series(close, period) returns null for every row
\* at which fewer than period observations exist (the rows before the
\* period-th one), a non-null value only from the first row at which
\* period observations exist.
C22_NullUntilPeriodObservations ==
    ind_output # Null =>
        \A i \in 1..Len(Val(ind_output)) :
            i < RsiPeriod => Val(ind_output)[i] = NaN

\* ---------------------------------------------------------------------
\* refresh_indicators with the rsi_3 column computed: one symbol, daily
\* bars dated 1, 2, ... with closes in hundredths.
\* ---------------------------------------------------------------------

\* The closes of the unit's bars dated in `dates`, in date order
\* (ORDER BY date).
CloseSeries(u, dates) ==
    [i \in 1..Cardinality(dates) |->
        (CHOOSE b \in price[u] :
            b.date \in dates
            /\ Cardinality({d \in dates : d < b.date}) = i - 1).close]

\* The rows of one unit with their rsi_3: calculate_indicators runs over
\* the fetched frame and the rows dated in keep are handed to executemany.
Rsi3Records(u, dates, keep) ==
    LET rsi_3 == calculate_rsi_series(CloseSeries(u, dates), RsiPeriod)
    IN  { [ timeframe |-> u[1], symbol_id |-> u[2], date |-> d,
            rsi_3 |-> rsi_3[Cardinality({e \in dates : e <= d})] ] : d \in keep }

\* One refresh_indicators call that meets no error, over a store whose
\* only bars are the daily bars of symbol 1: the unit's body and commit.
RefreshIndicatorsRsi(lb) ==
    LET u == <<"1d", 1>>
        last == SelectMaxDate(indicator, u)
        dates == FetchPriceDates(u, last, lb)
        keep == KeepNewRows(dates, last)
    IN  /\ indicator' = IF dates = {} \/ keep = {} THEN indicator
                        ELSE Upsert(indicator, Rsi3Records(u, dates, keep))
        /\ UNCHANGED << symbol_table, price, pending, txAborted, pc, cursor,
                        lookback_rows, faults, runs, hist, signals, trades,
                        hm_frame, hm_signals, extVars >>

\* The import adds the next daily bar, its close one of CloseMoves away
\* from the last close.
AddDailyClose ==
    LET u == <<"1d", 1>>
        n == Cardinality(price[u])
    IN  /\ 0 < n
        /\ n < MaxCloses
        /\ \E move \in CloseMoves :
              LET last == CHOOSE b \in price[u] : b.date = n
                  close == last.close + move
              IN  price' = [price EXCEPT ![u] =
                               @ \cup {[date |-> n + 1, open |-> last.close,
                                        close |-> close]}]
        /\ UNCHANGED << symbol_table, indicator, pending, txAborted, pc,
                        cursor, lookback_rows, faults, runs, hist, signals,
                        trades, hm_frame, hm_signals, extVars >>

\* One daily bar and no indicator row.
InitBatch ==
    /\ symbol_table = <<1>>
    /\ price = [u \in Timeframes \X SymbolIds |->
                  IF u = <<"1d", 1>>
                  THEN {[date |-> 1, open |-> 10000, close |-> 10000]}
                  ELSE {}]
    /\ indicator = {}
    /\ RefreshIdle
    /\ ScanIdle
    /\ ExtIdle

NextBatch ==
    \/ AddDailyClose
    \/ \E lb \in 1..MaxLookback : RefreshIndicatorsRsi(lb)

SpecBatch == InitBatch /\ [][NextBatch]_vars

PeriodEnd(timeframe, d) ==
    IF timeframe = "1wk" THEN d + (((5 - (d % 7)) + 7) % 7)
    ELSE (((d - 1) \div 30) + 1) * 30

DailyOf(store, symbol_id) ==
    {r \in store : r.symbol_id = symbol_id /\ r.timeframe = "1d"}

RECURSIVE SumOf(_)
SumOf(S) == IF S = {} THEN 0
            ELSE LET x == CHOOSE y \in S : TRUE
                 IN  x.v + SumOf(S \ {x})

\* AggregateBar with close = the close of the first bar that has one.
AggregateBar_CloseFirst(rows, symbol_id, timeframe, label) ==
    LET has(col) == {r \in rows : r[col] # Null}
        first(col) == IF has(col) = {} THEN NaN
                      ELSE (CHOOSE r \in has(col) :
                                \A q \in has(col) : r.date <= q.date)[col]
    IN  [symbol_id |-> symbol_id, timeframe |-> timeframe, date |-> label,
         open |-> first("open"),
         high |-> IF has("high") = {} THEN NaN
                  ELSE Some(SetMax({Val(r.high) : r \in has("high")})),
         low |-> IF has("low") = {} THEN NaN
                 ELSE Some(SetMin({Val(r.low) : r \in has("low")})),
         close |-> first("close"),
         volume |-> Some(SumOf({[d |-> r.date, v |-> Val(r.volume)]
                                   : r \in has("volume")}))]

\* agg({"open": "first", "high": "max", "low": "min", "close": "last",
\* "volume": "sum"}) over the daily rows of one period: each skips the
\* NULLs of its column; first, max, min and last are NaN and the sum is 0
\* when the column holds nothing else.
AggregateBar(rows, symbol_id, timeframe, label) ==
    LET has(col) == {r \in rows : r[col] # Null}
        first(col) == IF has(col) = {} THEN NaN
                      ELSE (CHOOSE r \in has(col) :
                                \A q \in has(col) : r.date <= q.date)[col]
        last(col) == IF has(col) = {} THEN NaN
                     ELSE (CHOOSE r \in has(col) :
                               \A q \in has(col) : r.date >= q.date)[col]
    IN  [symbol_id |-> symbol_id, timeframe |-> timeframe, date |-> label,
         open |-> first("open"),
         high |-> IF has("high") = {} THEN NaN
                  ELSE Some(SetMax({Val(r.high) : r \in has("high")})),
         low |-> IF has("low") = {} THEN NaN
                 ELSE Some(SetMin({Val(r.low) : r \in has("low")})),
         close |-> last("close"),
         volume |-> Some(SumOf({[d |-> r.date, v |-> Val(r.volume)]
                                   : r \in has("volume")}))]

\* The rows upserted for one symbol and timeframe with every period the
\* resampling gives: resample + agg, dropna, reset_index.
Resampled(store, symbol_id, timeframe) ==
    LET df_daily == DailyOf(store, symbol_id)
        labels == {PeriodEnd(timeframe, r.date) : r \in df_daily}
        df == {AggregateBar({r \in df_daily : PeriodEnd(timeframe, r.date) = l},
                            symbol_id, timeframe, l) : l \in labels}
    IN  {b \in df : b.open # NaN /\ b.high # NaN /\ b.low # NaN /\ b.close # NaN}

\* The same without df[df.index <= last_daily_date].
HigherRows_KeepsTrailingPeriod(store, symbol_id, timeframe) ==
    Resampled(store, symbol_id, timeframe)

\* ... and those kept by df[df.index <= last_daily_date].
HigherRows(store, symbol_id, timeframe) ==
    LET df_daily == DailyOf(store, symbol_id)
        last_daily_date == SetMax({r.date : r \in df_daily})
    IN  {b \in Resampled(store, symbol_id, timeframe) : b.date <= last_daily_date}

\* Every row one call upserts: for each symbol with daily data, its
\* weekly and its monthly rows.
AllHigherRows(store) ==
    UNION { HigherRows(store, r.symbol_id, tf) :
              r \in {q \in store : q.timeframe = "1d"}, tf \in {"1wk", "1mo"} }

\* The daily bars of `now` that `before` did not hold are all dated after
\* the last daily bar `before` held for their symbol, and the bars it held
\* are unchanged.
OnlyLaterBarsAdded(before, now) ==
    /\ before \subseteq now
    /\ \A r \in now \ before :
          \A q \in before : q.symbol_id = r.symbol_id => q.date < r.date

GenerateHigherTimeframes ==
    /\ LET rows == AllHigherRows(bars)
           daily == {r \in bars : r.timeframe = "1d"}
       IN  /\ bars' = Upsert(bars, rows)
           /\ agg' = [runs |-> IF agg.runs < 2 THEN agg.runs + 1 ELSE 2,
                      rows |-> rows,
                      daily |-> daily,
                      prevRows |-> agg.rows,
                      prevDaily |-> agg.daily,
                      higherWriters |->
                          IF rows = {} THEN agg.higherWriters
                          ELSE agg.higherWriters \cup {"generate_higher_timeframes"}]
    /\ UNCHANGED << coreVars, playVars, calcVars, errVars, statVars, symVars, poolVars >>

\* A row of a Yahoo CSV: "full" has every column, "empty" has none
\* (pd.to_numeric(errors="coerce") and where(notnull, None) store NULLs).
CsvRow(symbol_id, timeframe, d, kind) ==
    LET open == 10000 + 10 * d
        col(v) == IF kind = "full" THEN Some(v) ELSE Null
    IN  [symbol_id |-> symbol_id, timeframe |-> timeframe, date |-> d,
         open |-> col(open),
         high |-> col(open + 50 + 10 * ((7 * d) % 5)),
         low |-> col(open - 50 - 10 * ((3 * d) % 5)),
         close |-> col(open + 20 * ((d % 3) - 1)),
         volume |-> col(1000 + d)]

\* The CSV files of one import: a daily file of symbol 1 with some of
\* the days 4 (Thu), 5 (Fri), 8 (Mon), 30 (Tue, the month's last day) and
\* 33 (Fri), the row of day 4 full or empty, and a weekly file with or
\* without a row dated 5.
DailyDays == {4, 5, 8, 30, 33}
CsvKinds(d) == IF d = 4 THEN {"full", "empty"} ELSE {"full"}
CsvFiles ==
    { {CsvRow(1, "1d", d, c.kinds[d]) : d \in c.days}
        \cup {[CsvRow(1, "1wk", 5, "full") EXCEPT !.volume = Some(5000)]
                : x \in c.weekly}
        : c \in { f \in [days : SUBSET DailyDays,
                         kinds : [DailyDays -> {"full", "empty"}],
                         weekly : SUBSET {1}] :
                    \A d \in DailyDays : f.kinds[d] \in CsvKinds(d) } }

\* import_yahoo_csv_to_db: for timeframe in FREQUENCIES, every row of
\* every CSV file is upserted.
ImportYahooCsvToDb ==
    /\ \E csv \in CsvFiles :
          /\ bars' = Upsert(bars, csv)
          /\ agg' = [agg EXCEPT !.higherWriters =
                        IF \A r \in csv : r.timeframe = "1d" THEN @
                        ELSE @ \cup {"import_yahoo_csv_to_db"}]
    /\ UNCHANGED << coreVars, playVars, calcVars, errVars, statVars, symVars, poolVars >>

InitAgg ==
    /\ symbol_table = <<1>>
    /\ price = [u \in Units |-> {}]
    /\ indicator = {}
    /\ RefreshIdle
    /\ ScanIdle
    /\ PlayIdle
    /\ CalcIdle
    /\ AggIdle
    /\ ErrIdle
    /\ StatIdle
    /\ SymIdle
    /\ PoolIdle

NextAgg ==
    \/ ImportYahooCsvToDb
    \/ GenerateHigherTimeframes

SpecAgg == InitAgg /\ [][NextAgg]_vars

\* The aggregator has run and the daily bars are those it read.
Aggregated ==
    /\ agg.runs > 0
    /\ {r \in bars : r.timeframe = "1d"} = agg.daily

\* C14: generate_higher_timeframes never writes a partial period: every
\* weekly or monthly bar it writes is dated on or before the symbol's last
\* daily bar, a bar once written keeps its open/high/low/close/volume when
\* daily bars dated after the symbol's previous last daily bar are added
\* and the aggregator runs again, and a rerun with no new daily bars
\* changes nothing.
C14_NoPartialPeriodAndBarsKept ==
    agg.runs > 0 =>
        /\ \A r \in agg.rows :
              \E q \in DailyOf(agg.daily, r.symbol_id) : r.date <= q.date
        /\ agg.runs = 2 /\ OnlyLaterBarsAdded(agg.prevDaily, agg.daily)
              => agg.prevRows \subseteq agg.rows
        /\ agg.runs = 2 /\ agg.daily = agg.prevDaily
              => agg.rows = agg.prevRows
        /\ Aggregated /\ agg.rows \subseteq bars
              => Upsert(bars, AllHigherRows(bars)) = bars

\* The aggregator ran, daily bars after the last one were imported, and it
\* ran again, a weekly and a monthly bar having been written by the run
\* before.
C14_Witness ==
    /\ agg.runs = 2
    /\ agg.daily # agg.prevDaily
    /\ OnlyLaterBarsAdded(agg.prevDaily, agg.daily)
    /\ \E r \in agg.prevRows : r.timeframe = "1wk"
    /\ \E r \in agg.prevRows : r.timeframe = "1mo"

\* The daily bars of symbol_id in the period of timeframe labelled label.
PeriodBars(symbol_id, timeframe, label) ==
    {r \in DailyOf(agg.daily, symbol_id) : PeriodEnd(timeframe, r.date) = label}

\* The periods of a symbol that hold a daily bar and end on or before its
\* last daily bar.
ClosedPeriods(symbol_id, timeframe) ==
    {l \in {PeriodEnd(timeframe, r.date) : r \in DailyOf(agg.daily, symbol_id)} :
        \E q \in DailyOf(agg.daily, symbol_id) : l <= q.date}

WrittenFor(symbol_id, timeframe) ==
    {b \in agg.rows : b.symbol_id = symbol_id /\ b.timeframe = timeframe}

\* C15: for each symbol, generate_higher_timeframes produces exactly one
\* weekly bar per Friday-ending week (one monthly bar per calendar month)
\* that has at least one daily bar and ends on or before the last daily
\* bar, with open = the period's first daily open, high = max of daily
\* highs, low = min of daily lows, close = the period's last daily close
\* and volume = sum of daily volumes.
C15_OneBarPerClosedPeriod ==
    Aggregated =>
        \A sid \in {r.symbol_id : r \in agg.daily}, tf \in {"1wk", "1mo"} :
            /\ {b.date : b \in WrittenFor(sid, tf)} = ClosedPeriods(sid, tf)
            /\ \A b \in WrittenFor(sid, tf) :
                  LET days == PeriodBars(sid, tf, b.date)
                      firstDay == CHOOSE r \in days : \A q \in days : r.date <= q.date
                      lastDay == CHOOSE r \in days : \A q \in days : r.date >= q.date
                  IN  /\ Cardinality({c \in WrittenFor(sid, tf) : c.date = b.date}) = 1
                      /\ b.open = firstDay.open
                      /\ b.close = lastDay.close
                      /\ \A r \in days : ColsGe(b.high, r.high) /\ ColsLe(b.low, r.low)
                      /\ \E r \in days : r.high = b.high
                      /\ \E r \in days : r.low = b.low
                      /\ b.volume = Some(SumOf({[d |-> r.date, v |-> Val(r.volume)]
                                                  : r \in days}))

\* The bars of a set that hold a value in column col.
WithValue(days, col) == {r \in days : r[col] # Null}

\* C15 (amended): exactly one weekly (monthly) bar per period that ends on
\* or before the symbol's last daily bar and in which each of open, high,
\* low and close is non-null on some daily bar, and no other bar; open is
\* the first non-null daily open, high the max of the non-null highs, low
\* the min of the non-null lows, close the last non-null close and volume
\* the sum of the non-null volumes of the period.
C15_OneBarPerClosedPricedPeriod ==
    Aggregated =>
        \A sid \in {r.symbol_id : r \in agg.daily}, tf \in {"1wk", "1mo"} :
            /\ {b.date : b \in WrittenFor(sid, tf)}
                 = {l \in ClosedPeriods(sid, tf) :
                      \A col \in {"open", "high", "low", "close"} :
                          WithValue(PeriodBars(sid, tf, l), col) # {}}
            /\ \A b \in WrittenFor(sid, tf) :
                  LET days == PeriodBars(sid, tf, b.date)
                      opens == WithValue(days, "open")
                      closes == WithValue(days, "close")
                  IN  /\ Cardinality({c \in WrittenFor(sid, tf) : c.date = b.date}) = 1
                      /\ \E r \in opens :
                            /\ b.open = r.open
                            /\ \A q \in opens : r.date <= q.date
                      /\ \E r \in closes :
                            /\ b.close = r.close
                            /\ \A q \in closes : r.date >= q.date
                      /\ \A r \in WithValue(days, "high") : Val(b.high) >= Val(r.high)
                      /\ \E r \in days : r.high = b.high
                      /\ \A r \in WithValue(days, "low") : Val(b.low) <= Val(r.low)
                      /\ \E r \in days : r.low = b.low
                      /\ b.volume = Some(SumOf({[d |-> r.date, v |-> Val(r.volume)]
                                                  : r \in WithValue(days, "volume")}))

\* The aggregator wrote a weekly bar for a week of two daily bars whose
\* first has no prices and a monthly bar, or no bar for a closed week
\* whose only daily bar has no prices.
C15_Witness ==
    /\ Aggregated
    /\ WrittenFor(1, "1mo") # {}
    /\ \E b \in WrittenFor(1, "1wk") :
          /\ Cardinality(PeriodBars(1, "1wk", b.date)) = 2
          /\ \E r \in PeriodBars(1, "1wk", b.date) : r.open = Null

\* C16: only generate_higher_timeframes writes price bars of the weekly or
\* monthly timeframe and only refresh_indicators writes indicator rows: no
\* other operation (data import, scanner, evaluator) inserts or updates a
\* weekly/monthly price bar or an indicator row.
C16_SoleWriters ==
    /\ agg.higherWriters \subseteq {"generate_higher_timeframes"}
    /\ indicator = {}

\* ---------------------------------------------------------------------
\* Asset types and the errors of the entry points.
\* ---------------------------------------------------------------------

MaxAssetKeys == 3       \* asset types in one refresh_indicators call

\* Keys of ASSET_TABLE_MAP, and a key it does not hold.
ConfiguredAssetTypes == {"india_equity_yahoo", "usa_equity"}
AssetTypes == ConfiguredAssetTypes \cup {"india_equity_nse"}

\* refresh_indicators(asset_types): the connection is acquired and the
\* loop over asset_keys starts.
RefreshIndicatorsOf(asset_types) ==
    /\ batch.pc = "idle"
    /\ batch' = [asset_keys |-> asset_types, done |-> <<>>, pc |-> "loop"]
    /\ UNCHANGED << coreVars, playVars, calcVars, aggVars, statVars,
                    symVars, poolVars, call >>

\* for asset_key in asset_keys: ASSET_TABLE_MAP[asset_key], then the
\* timeframes and symbols of the asset type are refreshed.
RefreshAssetKey ==
    /\ batch.pc = "loop"
    /\ Len(batch.done) < Len(batch.asset_keys)
    /\ batch.asset_keys[Len(batch.done) + 1] \in ConfiguredAssetTypes
    /\ batch' = [batch EXCEPT !.done = Append(@, batch.asset_keys[Len(@) + 1])]
    /\ UNCHANGED << coreVars, playVars, calcVars, aggVars, statVars,
                    symVars, poolVars, call >>

\* ASSET_TABLE_MAP[asset_key] raises KeyError for a key it does not hold;
\* the error leaves both with blocks and the loop, and the except clause
\* of refresh_indicators logs it and returns.
AssetKeyError ==
    /\ batch.pc = "loop"
    /\ Len(batch.done) < Len(batch.asset_keys)
    /\ batch.asset_keys[Len(batch.done) + 1] \notin ConfiguredAssetTypes
    /\ batch' = [batch EXCEPT !.pc = "failed"]
    /\ UNCHANGED << coreVars, playVars, calcVars, aggVars, statVars,
                    symVars, poolVars, call >>

\* The loop is through; refresh_indicators returns.
RefreshReturns ==
    /\ batch.pc = "loop"
    /\ Len(batch.done) = Len(batch.asset_keys)
    /\ batch' = [batch EXCEPT !.pc = "returned"]
    /\ UNCHANGED << coreVars, playVars, calcVars, aggVars, statVars,
                    symVars, poolVars, call >>

\* The entry points and what a call gives its caller.  Each body is one
\* try block whose except clause logs the exception and, for the four
\* scanners, returns an empty frame; refresh_indicators and
\* generate_higher_timeframes return None on every path.  validate_asset_type
\* or the asset-table lookup raises for an asset type that is not
\* configured, get_db_connection raises when no connection can be had.
Operations ==
    {"run_scanner_hilega_milega", "run_scanner_weekly",
     "scanner_backtest_multi_years_hm", "scanner_backtest_multi_years",
     "refresh_indicators", "generate_higher_timeframes"}

Outcome(op, configured, connected, found) ==
    IF op \in {"refresh_indicators", "generate_higher_timeframes"}
    THEN [raised |-> FALSE, value |-> "None"]
    ELSE IF ~configured \/ ~connected
    THEN [raised |-> FALSE, value |-> "empty frame"]
    ELSE IF ~found
    THEN [raised |-> FALSE, value |-> "empty frame"]
    ELSE [raised |-> FALSE, value |-> "frame"]

\* One call of an entry point: asset_type is its argument, connected
\* whether a connection can be acquired, found whether the store holds a
\* row the scanner's rule passes.
CallOperation(op, asset_type, connected, found) ==
    /\ call' = Some([op |-> op, asset_type |-> asset_type,
                     connected |-> connected,
                     outcome |-> Outcome(op, asset_type \in ConfiguredAssetTypes,
                                         connected, found)])
    /\ UNCHANGED << coreVars, playVars, calcVars, aggVars, statVars,
                    symVars, poolVars, batch >>

RECURSIVE SeqsUpTo(_, _)
SeqsUpTo(S, n) ==
    IF n = 0 THEN {<<>>}
    ELSE LET shorter == SeqsUpTo(S, n - 1)
         IN  shorter \cup {Append(q, x) : q \in shorter, x \in S}

InitErrors ==
    /\ symbol_table = <<1>>
    /\ price = [u \in Units |-> {}]
    /\ indicator = {}
    /\ RefreshIdle
    /\ ScanIdle
    /\ PlayIdle
    /\ CalcIdle
    /\ AggIdle
    /\ ErrIdle
    /\ StatIdle
    /\ SymIdle
    /\ PoolIdle

NextErrors ==
    \/ \E asset_types \in SeqsUpTo(AssetTypes, MaxAssetKeys) \ {<<>>} :
          RefreshIndicatorsOf(asset_types)
    \/ RefreshAssetKey
    \/ AssetKeyError
    \/ RefreshReturns
    \/ \E op \in Operations, asset_type \in AssetTypes,
          connected \in BOOLEAN, found \in BOOLEAN :
              CallOperation(op, asset_type, connected, found)

SpecErrors == InitErrors /\ [][NextErrors]_vars

\* C17: when refresh_indicators is called with a list of asset types that
\* contains an unknown asset type, the other asset types of the list, those
\* before and those after the unknown one, are still refreshed.
C17_OtherAssetTypesStillRefreshed ==
    batch.pc \in {"returned", "failed"} =>
        \A i \in 1..Len(batch.asset_keys) :
            batch.asset_keys[i] \in ConfiguredAssetTypes
                => \E j \in 1..Len(batch.done) : batch.done[j] = batch.asset_keys[i]

\* C18: a call of one of the six entry points that is given an asset type
\* that is not configured, or that cannot acquire a database connection,
\* ends in an error surfaced to the caller, distinguishable from a
\* successful run that found nothing.
C18_FailureSurfacedToCaller ==
    call # Null =>
        LET c == Val(call)
        IN  c.asset_type \notin ConfiguredAssetTypes \/ ~c.connected
                => \/ c.outcome.raised
                   \/ c.outcome # Outcome(c.op, TRUE, TRUE, FALSE)

\* ---------------------------------------------------------------------
\* refresh_week52_high_low_stats (services/weekly_monthly_service.py)
\* over the price table bars and the stats table of one asset type.
\* ---------------------------------------------------------------------

MaxToday == 500         \* CURRENT_DATE stays at or below this day
OneYear == 365          \* INTERVAL '1 year', in days

\* SELECT DISTINCT symbol_id FROM {price_table} WHERE timeframe = '1d'
SelectDailyIds(store) == {r.symbol_id : r \in {q \in store : q.timeframe = "1d"}}

\* MAX(col) / MIN(col) of a group: NULLs are skipped, NULL when every value
\* is NULL.
SqlMax(rows, col) ==
    LET vs == {Val(r[col]) : r \in {q \in rows : q[col] # Null}}
    IN  IF vs = {} THEN Null ELSE Some(SetMax(vs))
SqlMin(rows, col) ==
    LET vs == {Val(r[col]) : r \in {q \in rows : q[col] # Null}}
    IN  IF vs = {} THEN Null ELSE Some(SetMin(vs))

\* SelectWeek52 without the date condition.
SelectWeek52_AllDates(store, ids, current_date) ==
    LET group(sid) == {r \in store : /\ r.timeframe = "1d"
                                     /\ r.symbol_id = sid}
    IN  { [symbol_id |-> sid, high |-> SqlMax(group(sid), "high"),
           low |-> SqlMin(group(sid), "low")]
          : sid \in {i \in ids : group(i) # {}} }

\* SELECT symbol_id, MAX(high), MIN(low) FROM {price_table}
\* WHERE timeframe = '1d' AND symbol_id IN (ids)
\*   AND date >= CURRENT_DATE - INTERVAL '1 year' GROUP BY symbol_id
SelectWeek52(store, ids, current_date) ==
    LET group(sid) == {r \in store : /\ r.timeframe = "1d"
                                     /\ r.symbol_id = sid
                                     /\ r.date >= current_date - OneYear}
    IN  { [symbol_id |-> sid, high |-> SqlMax(group(sid), "high"),
           low |-> SqlMin(group(sid), "low")]
          : sid \in {i \in ids : group(i) # {}} }

\* INSERT ... ON CONFLICT (symbol_id) DO UPDATE of the results.
UpsertStats(table, results, current_date) ==
    {t \in table : \A x \in results : x.symbol_id # t.symbol_id}
    \cup { [symbol_id |-> x.symbol_id, week52_high |-> x.high,
            week52_low |-> x.low, as_of_date |-> current_date] : x \in results }

\* One call of refresh_week52_high_low_stats.  An asset_key outside
\* ASSET_TABLE_MAP returns at once; a connection that cannot be acquired
\* raises out of the handlers (conn is unbound in them) with nothing
\* written; otherwise the rows of the query with a high are upserted and
\* committed.
RefreshWeek52HighLowStats(asset_key, connected) ==
    LET ids == SelectDailyIds(bars)
        results == {x \in SelectWeek52(bars, ids, today) : x.high # Null}
        written == asset_key \in ConfiguredAssetTypes /\ connected
    IN  /\ stats' = IF written THEN UpsertStats(stats, results, today) ELSE stats
        /\ stat_run' = Some([asset_key |-> asset_key,
                             raised |-> (asset_key \in ConfiguredAssetTypes
                                         /\ ~connected),
                             before |-> stats])
        /\ UNCHANGED << coreVars, playVars, calcVars, aggVars, errVars,
                        symVars, poolVars, today >>

\* A daily bar of a symbol with a given high and low, the other columns
\* as in CsvRow.
StatBar(symbol_id, d, high, low) ==
    [CsvRow(symbol_id, "1d", d, "full") EXCEPT !.high = high, !.low = low]

\* A daily bar on day d of a given shape: priced, without a high, or
\* without a high and a low.
BarShapes == {"priced", "no high", "no high, no low"}
StatBarOf(symbol_id, d, shape) ==
    StatBar(symbol_id, d,
            IF shape = "priced" THEN Some(10000 + d) ELSE Null,
            IF shape = "no high, no low" THEN Null ELSE Some(9000 - d))
StatBarsOn(symbol_id, d) == {StatBarOf(symbol_id, d, shape) : shape \in BarShapes}

\* The import of the day's bar of a symbol (the upsert of
\* import_yahoo_csv_to_db).
ImportDailyBar ==
    /\ \E sid \in {1, 2} : \E b \in StatBarsOn(sid, today) :
          /\ \A r \in bars : Key(r) # Key(b)
          /\ bars' = Upsert(bars, {b})
    /\ stat_run' = Null
    /\ UNCHANGED << coreVars, playVars, calcVars, agg, errVars, symVars, poolVars,
                    stats, today >>

\* CURRENT_DATE moves on.
AdvanceDay ==
    /\ today + 100 <= MaxToday
    /\ today' = today + 100
    /\ stat_run' = Null
    /\ UNCHANGED << coreVars, playVars, calcVars, aggVars, errVars, symVars, poolVars,
                    stats >>

\* The price table holds daily bars of symbol 1 on some of the days 100
\* and 400, of symbol 2 none or one, and a weekly bar of symbol 1; the
\* stats table is empty and CURRENT_DATE is day 400.
InitStats ==
    /\ symbol_table = <<1>>
    /\ price = [u \in Units |-> {}]
    /\ indicator = {}
    /\ RefreshIdle
    /\ ScanIdle
    /\ PlayIdle
    /\ CalcIdle
    /\ ErrIdle
    /\ \E days \in SUBSET {100, 400} :
          \E shape \in [days -> BarShapes] :
             \E other \in {{}} \cup {{b} : b \in StatBarsOn(2, 100)} :
                bars = { StatBarOf(1, d, shape[d]) : d \in days }
                       \cup other
                       \cup { [CsvRow(1, "1wk", 397, "full")
                                  EXCEPT !.high = Some(99999)] }
    /\ agg = [runs |-> 0, rows |-> {}, daily |-> {}, prevRows |-> {},
              prevDaily |-> {}, higherWriters |-> {}]
    /\ stats = {}
    /\ today = 400
    /\ SymIdle
    /\ PoolIdle
    /\ stat_run = Null

NextStats ==
    \/ \E asset_key \in {"india_equity_yahoo", "india_equity_nse"},
          connected \in BOOLEAN :
          RefreshWeek52HighLowStats(asset_key, connected)
    \/ ImportDailyBar
    \/ AdvanceDay

SpecStats == InitStats /\ [][NextStats]_vars

\* The last call refreshed the asset type of the price table and returned.
RefreshCompleted ==
    /\ stat_run # Null
    /\ Val(stat_run).asset_key \in ConfiguredAssetTypes
    /\ ~Val(stat_run).raised

\* The daily bars of a symbol in the trailing one-year window.
InWindow(symbol_id) ==
    {r \in DailyOf(bars, symbol_id) : today - OneYear <= r.date /\ r.date <= today}

StatSymbols == {r.symbol_id : r \in bars} \cup {t.symbol_id : t \in stats}

\* C20 as stated: after refresh_week52_high_low_stats completes, every
\* symbol with at least one daily bar in the trailing one-year window has
\* exactly one stats row, holding the maximum high and the minimum low of
\* its daily bars in the window and as_of_date = the current date; a symbol
\* with no daily bar in the window got no write and no error was raised.
C20_EveryWindowSymbolHasOneRow ==
    RefreshCompleted =>
        \A sid \in StatSymbols :
            LET rows == {t \in stats : t.symbol_id = sid}
            IN  IF InWindow(sid) # {}
                THEN rows = { [symbol_id |-> sid,
                               week52_high |-> SqlMax(InWindow(sid), "high"),
                               week52_low |-> SqlMin(InWindow(sid), "low"),
                               as_of_date |-> today] }
                ELSE rows = {t \in Val(stat_run).before : t.symbol_id = sid}

\* C20 amended: after refresh_week52_high_low_stats completes, every symbol
\* with at least one daily bar in the window that carries a high has
\* exactly one stats row, holding the maximum of the highs and the minimum
\* of the lows its daily bars in the window carry (no low when none
\* carries one) and as_of_date = the current date; every other symbol got
\* no write, and no error was raised.
C20_EveryWindowSymbolWithHighHasOneRow ==
    RefreshCompleted =>
        \A sid \in StatSymbols :
            LET rows == {t \in stats : t.symbol_id = sid}
            IN  IF \E r \in InWindow(sid) : r.high # Null
                THEN rows = { [symbol_id |-> sid,
                               week52_high |-> SqlMax(InWindow(sid), "high"),
                               week52_low |-> SqlMin(InWindow(sid), "low"),
                               as_of_date |-> today] }
                ELSE rows = {t \in Val(stat_run).before : t.symbol_id = sid}

\* A refresh has overwritten the row of a symbol whose window lost a bar
\* and has left the row of a symbol with no bar in the window alone.
C20_Witness ==
    /\ RefreshCompleted
    /\ \E t \in stats, b \in Val(stat_run).before :
          /\ t.symbol_id = b.symbol_id
          /\ t.as_of_date > b.as_of_date
          /\ t.week52_high # b.week52_high
          /\ \E r \in InWindow(t.symbol_id) : r.high = Null
    /\ \E t \in stats : InWindow(t.symbol_id) = {} /\ t.as_of_date < today

\* ---------------------------------------------------------------------
\* The price pipeline (services/yahoo_service.py), the aggregator and the
\* indicator refresh feeding the HM scanner.  The feed dates a monthly bar
\* by the first day of its month (what _calculate_symbol_date_range
\* compares latest_date with) and a weekly bar by the Monday of its week;
\* the bar of the running period holds what has traded so far.
\* Symbols 1 and 2 trade the same closes; symbol 2 stops trading after
\* TwinLastDay, so the rows of symbol 2 are the store of symbol 1 without
\* the daily bars dated after TwinLastDay and what is derived from them.
\* ---------------------------------------------------------------------

FirstDayOfMonth(d) == (((d - 1) \div 30) * 30) + 1
MondayOf(d) == d - ((d - 1) % 7)

\* The days the feed has a daily bar for, and its close.
FeedDays == {1, 31, 61, 91, 100}
TwinLastDay == FirstDayOfMonth(100)
FeedClose(d) == IF d > TwinLastDay THEN 9000 ELSE 10000 + ((d \div 30) * 100)

FeedDaily(symbol_id, now) ==
    { [date |-> d, open |-> FeedClose(d), close |-> FeedClose(d)]
        : d \in {e \in FeedDays : e <= now /\ (symbol_id = 2 => e <= TwinLastDay)} }

\* What the feed holds on day `now` for yf.download(interval=timeframe).
FeedBars(symbol_id, timeframe, now) ==
    LET daily == FeedDaily(symbol_id, now)
        start(d) == IF timeframe = "1wk" THEN MondayOf(d) ELSE FirstDayOfMonth(d)
        of(l) == {b \in daily : start(b.date) = l}
    IN  IF timeframe = "1d" THEN daily
        ELSE { [date |-> l,
                open |-> (CHOOSE b \in of(l) : \A q \in of(l) : b.date <= q.date).open,
                close |-> (CHOOSE b \in of(l) : \A q \in of(l) : b.date >= q.date).close]
                 : l \in {start(b.date) : b \in daily} }

\* _calculate_symbol_date_range: the dates start <= date < end asked of
\* the feed, none when the download is skipped.
DownloadDates(latest_date, timeframe, now) ==
    IF timeframe = "1mo"
    THEN LET first_day_of_month == FirstDayOfMonth(now)
         IN  IF latest_date = Null THEN 0..first_day_of_month
             ELSE IF Val(latest_date) = first_day_of_month THEN {}
             ELSE {first_day_of_month}
    ELSE LET start_date == IF latest_date = Null THEN 0 ELSE Val(latest_date) + 1
         IN  start_date..now

\* MAX(p.date) of _fetch_symbols_from_db.
LatestPriceDate(u) ==
    IF price[u] = {} THEN Null ELSE Some(SetMax(PriceDates(u)))

\* ON CONFLICT (symbol_id, timeframe, date) DO UPDATE within one unit.
UpsertBars(old, new) ==
    {b \in old : \A n \in new : n.date # b.date} \cup new

\* insert_yahoo_price_data_pipeline on day `now`: for every timeframe and
\* active symbol the downloaded bars are upserted.
InsertYahooPriceDataPipeline ==
    /\ \E now \in FeedDays :
          /\ now >= today
          /\ today' = now
          /\ price' = [u \in DOMAIN price |->
                         IF is_active[u[2]]
                         THEN UpsertBars(price[u],
                                 {b \in FeedBars(u[2], u[1], now) :
                                     b.date \in DownloadDates(LatestPriceDate(u), u[1], now)})
                         ELSE price[u]]
    /\ UNCHANGED << symbol_table, indicator, pending, txAborted, pc, cursor,
                    lookback_rows, faults, runs, hist, signals, trades,
                    hm_frame, hm_signals, playVars, calcVars, aggVars, errVars,
                    stats, stat_run, symVars, poolVars >>

\* The daily bars of the price table as rows of the aggregator's store.
DailyStore ==
    { [symbol_id |-> sid, timeframe |-> "1d", date |-> b.date,
       open |-> Some(b.open), high |-> Some(b.open), low |-> Some(b.close),
       close |-> Some(b.close), volume |-> Some(0)]
        : << sid, b >> \in {x \in SymbolIds \X UNION {price[<<"1d", s>>] : s \in SymbolIds} :
                              x[2] \in price[<<"1d", x[1]>>]} }

\* generate_higher_timeframes over the price table.
GenerateHigherTimeframesOnPrice ==
    /\ price' = [u \in DOMAIN price |->
                    IF u[1] = "1d" THEN price[u]
                    ELSE UpsertBars(price[u],
                            { [date |-> r.date, open |-> Val(r.open), close |-> Val(r.close)]
                                : r \in HigherRows(DailyStore, u[2], u[1]) })]
    /\ UNCHANGED << symbol_table, indicator, pending, txAborted, pc, cursor,
                    lookback_rows, faults, runs, hist, signals, trades,
                    hm_frame, hm_signals, extVars >>

\* The records one unit's refresh upserts: rsi_3 over the fetched closes;
\* a daily row carries the other columns the HM rule reads, here values
\* that meet the rule's conditions on the daily columns.
UnitRecords(u, lb) ==
    LET last == SelectMaxDate(indicator, u)
        dates == FetchPriceDates(u, last, lb)
        keep == KeepNewRows(dates, last)
    IN  IF dates = {} \/ keep = {} THEN {}
        ELSE IF u[1] = "1d" THEN {DailyIndicatorRow(u[2], d) : d \in keep}
        ELSE { HigherIndicatorRow(u[1], u[2], r.date, Val(r.rsi_3))
                 : r \in Rsi3Records(u, dates, keep) }

\* refresh_indicators over every timeframe and symbol, no error met.
RefreshIndicatorsAllUnits(lb) ==
    /\ indicator' = Upsert(indicator, UNION {UnitRecords(u, lb) : u \in DOMAIN price})
    /\ UNCHANGED << symbol_table, price, pending, txAborted, pc, cursor,
                    lookback_rows, faults, runs, hist, signals, trades,
                    hm_frame, hm_signals, extVars >>

\* An empty store holding the two symbols, both active.
InitLook ==
    /\ symbol_table = <<1, 2>>
    /\ is_active = [sid \in {1, 2} |-> TRUE]
    /\ PoolIdle
    /\ price = [u \in Timeframes \X SymbolIds |-> {}]
    /\ indicator = {}
    /\ RefreshIdle
    /\ ScanIdle
    /\ PlayIdle
    /\ CalcIdle
    /\ AggIdle
    /\ ErrIdle
    /\ StatIdle

NextLook ==
    \/ InsertYahooPriceDataPipeline
    \/ GenerateHigherTimeframesOnPrice
    \/ \E lb \in 1..MaxLookback : RefreshIndicatorsAllUnits(lb)
    \/ \E scan_date \in FeedDays : RunScannerHilegaMilegaOn(scan_date)

SpecLook == InitLook /\ [][NextLook]_vars

maxconn == 10           \* SimpleConnectionPool(minconn=2, maxconn=10, ...)

\* get_db_connection: CONNECTION_POOL.getconn() raises when every
\* connection is checked out; the session setting then runs on the
\* connection and an error of it is raised with the connection checked out.
\* used is the pool after the call, conn whether a connection was returned.
get_db_connection(used, set_fails) ==
    IF used >= maxconn THEN [used |-> used, conn |-> FALSE]
    ELSE IF set_fails THEN [used |-> used + 1, conn |-> FALSE]
    ELSE [used |-> used + 1, conn |-> TRUE]

\* return_db_connection: CONNECTION_POOL.putconn(conn).
return_db_connection(used) == used - 1

PoolOperations ==
    Operations \cup {"refresh_week52_high_low_stats", "backtest_scanners"}

\* The pool after one call of an operation.  refresh_indicators runs its
\* body inside "with get_db_connection() as conn", which commits or rolls
\* back on exit and neither closes the connection nor returns it; every
\* other operation looks its asset type up before it acquires a connection
\* and calls close_db_connection in a finally clause.
PoolAfter(op, configured, used, set_fails) ==
    LET got == get_db_connection(used, set_fails)
    IN  IF op = "refresh_indicators" THEN got.used
        ELSE IF ~configured THEN used
        ELSE IF got.conn THEN return_db_connection(got.used)
        ELSE got.used

\* What the call gives its caller.  refresh_week52_high_low_stats and
\* backtest_scanners return early for an asset type that is not configured
\* and have no handler that survives a failed acquisition.
PoolOutcome(op, configured, connected, found) ==
    IF op \in Operations THEN Outcome(op, configured, connected, found)
    ELSE IF op = "refresh_week52_high_low_stats"
    THEN [raised |-> configured /\ ~connected, value |-> "None"]
    ELSE IF ~configured THEN [raised |-> FALSE, value |-> "empty frame"]
    ELSE IF ~connected THEN [raised |-> TRUE, value |-> "None"]
    ELSE [raised |-> FALSE, value |-> IF found THEN "frame" ELSE "empty frame"]

\* One call of an operation, from its entry to its return.
CallWithPool(op, asset_type, set_fails, found) ==
    LET configured == asset_type \in ConfiguredAssetTypes
        got == get_db_connection(pool_used, set_fails)
    IN  /\ pool_used' = PoolAfter(op, configured, pool_used, set_fails)
        /\ call' = Some([op |-> op, asset_type |-> asset_type,
                         connected |-> got.conn,
                         outcome |-> PoolOutcome(op, configured, got.conn, found)])
        /\ UNCHANGED << coreVars, playVars, calcVars, aggVars, statVars,
                        symVars, batch >>

InitPool ==
    /\ symbol_table = <<1>>
    /\ price = [u \in Units |-> {}]
    /\ indicator = {}
    /\ RefreshIdle
    /\ ScanIdle
    /\ ExtIdle

NextPool ==
    \E op \in PoolOperations, asset_type \in AssetTypes,
       set_fails \in BOOLEAN, found \in BOOLEAN :
          CallWithPool(op, asset_type, set_fails, found)

SpecPool == InitPool /\ [][NextPool]_vars

\* C30: every operation gives back the database connection it acquired
\* before it returns, on success and on every error path: after any
\* sequence of refresh_indicators, generate_higher_timeframes,
\* refresh_week52_high_low_stats, scanner and backtest_scanners calls no
\* connection remains checked out of the pool, so repeated calls never
\* exhaust its 10 connections.
C30_NoConnectionRemainsCheckedOut ==
    pool_used = 0

====
